---- MODULE Spec2Model ----
(***************************************************************************)
(* qtask_nano: the queue engine of src/qtask_nano/queue (the key-value     *)
(* backend RedisQueue and the relational backend PostgreSQLQueue) and the  *)
(* clients that drive it (claimers, lease-timeout scanners, producers).    *)
(*                                                                         *)
(* Granularity: one step per command that reaches the store.  A redis-py  *)
(* pipeline() is sent as MULTI/EXEC and is one step; the three commands of *)
(* RedisQueue.pop_key are three steps; every SQL statement of a connection *)
(* with autocommit = True is one step (its own transaction).               *)
(***************************************************************************)
EXTENDS Integers, Sequences, FiniteSets, TLC

\* ---------------------------------------------------------------- bounds
NumKeys == 2
NumWorkers == 2
NumScanners == 2
MaxTicks == 1
MaxTimeout == 1
MaxEntries == 3
MaxClaims == 3
MaxScans == 2
MaxStops == 1
MaxAttempts == 4
MaxFaults == 1
MaxSweeps == 2
MaxSweepWorkers == 1
MaxParams == 2
MaxCalls == 4
MaxWeight == 2

\* ------------------------------------------------------ program constants
\* time.time() * 1000 and timeout_seconds * 1000: the store keeps milliseconds
MsPerSecond == 1000

Keys == 1..NumKeys
Workers == 1..NumWorkers
Scanners == 1..NumScanners
NoKey == 0
NoTime == -1
StartMs == MsPerSecond
MaxNow == StartMs + MaxTicks * MsPerSecond
Targets == {"todo", "done", "error", "null"}
\* Task.task_type: the types of the tasks in the queue
TaskTypes == {"a", "b"}
TaskType(k) == IF k % 2 = 1 THEN "a" ELSE "b"
\* the statuses in the order cleanup_expired_keys sweeps them
Phases == <<"todo", "doing", "done", "error", "null">>
\* key_expire or {} (base.py:17): no TTL configured
NoExpire == [S \in {} |-> 0]
\* no sweep is running and none has run
NoSweep == [pc |-> "idle", status |-> 0, now |-> NoTime, keys |-> <<>>,
            total_removed |-> 0, passes |-> 0,
            expired |-> <<>>, before |-> <<>>, again |-> FALSE,
            loop |-> "none", running |-> FALSE, raised |-> FALSE]
\* Python values, as far as json tells them apart: the type, the text of a
\* scalar, and the items of a container as <<key, value>> pairs
PyNone == [t |-> "none", s |-> "", items |-> <<>>]
PyInt(s) == [t |-> "int", s |-> s, items |-> <<>>]
PyFloat(s) == [t |-> "float", s |-> s, items |-> <<>>]
PyStr(s) == [t |-> "str", s |-> s, items |-> <<>>]
PySeq(t, vals) == [t |-> t, s |-> "", items |-> [i \in 1..Len(vals) |-> <<PyNone, vals[i]>>]]
PyDict(pairs) == [t |-> "dict", s |-> "", items |-> pairs]
\* a Task object (task_queue.py:517-523): its four attributes
NoTask == [task_id |-> PyNone, task_type |-> PyNone, params |-> PyNone, created_at |-> PyNone]
\* the calling program has no task and has made no call
NoCaller == [pc |-> "none", task |-> NoTask, result |-> NoTask, tasks |-> <<>>,
             raised |-> FALSE, call |-> "none", calls |-> 0]
\* worker.py:131-132  keep_alive_thread = None, keep_alive_stop_event = None
NoKeepAlive == [thread |-> "none", stop_event |-> "none", joined |-> FALSE]
\* nothing has happened yet in a worker's iteration
NoTrace == [handler |-> "none", callback |-> "none", beat |-> "none",
            exit |-> "none", at |-> "none", requeued |-> FALSE, out |-> "none",
            task_type |-> "none"]

VARIABLES
    todo,          \* N:todo   (list, head = left end)
    doing,         \* N:doing  (set)
    done,          \* N:done   (list)
    error,         \* N:error  (list)
    null,          \* N:null   (list)
    doing_time,    \* N:doing_time  (sorted set key -> score), NoTime = absent
    create_time,   \* N:create_time (hash key -> timestamp),   NoTime = absent
    now,           \* the wall clock, in milliseconds
    pushing,       \* push_key: the key whose hset is done and lpush is not
    pushed,        \* keys push_key has been called with
    wpc,           \* each claimer's position
    key,           \* pop_key's local `key` / the task the worker holds
    timestamp,     \* pop_key's local `timestamp`
    spc,           \* each scanner's position
    timeout_keys,  \* move_timeout_to_todo's local list still to iterate
    moved_count,   \* move_timeout_to_todo's local counter
    timeout_seconds, \* move_timeout_to_todo's argument, while the call runs
    tasks,         \* relational backend: the rows of table tasks, in id order
    task_id,       \* PostgreSQLQueue.pop_key's local task_id
    claims,        \* number of pop_key calls that returned a key so far
    scans,         \* number of move_timeout_to_todo calls so far
    doing_since,   \* history: when each key last entered doing, NoTime = not in doing
    hist,          \* history: the claim attempts made and what they returned
    task,          \* Worker.run's local `task`: the task the worker holds
    running,       \* Worker.running
    task_handlers, \* Worker.task_handlers: task type -> handler info
    faults,        \* number of backend calls that raised so far
    doing_tasks,   \* _handle_interrupt_cleanup's local list still to iterate
    trace,         \* history: what happened in each worker's current iteration
    key_expire,    \* BaseQueue.key_expire: status -> TTL in seconds
    sweep,         \* cleanup_expired_keys: its position, locals and history
    caller,        \* the program that calls the TaskQueue facade: its task and results
    keep_alive,    \* _process_task's keep-alive thread and stop event, per worker
    weights        \* Worker.weights: the weight vector of the weighted choice

store == <<todo, doing, done, error, null, doing_time, create_time>>
producer == <<pushing, pushed>>
worker == <<wpc, key, timestamp>>
scanner == <<spc, timeout_keys, moved_count, timeout_seconds>>
pg == <<tasks, task_id>>
budget == <<claims, scans>>
runner == <<task, running, task_handlers, faults, doing_tasks, trace>>
cleaner == <<key_expire, sweep>>
vars == <<store, now, producer, worker, scanner, pg, budget, doing_since, hist, runner,
          cleaner, caller, keep_alive, weights>>

\* ------------------------------------------------------- redis commands
\* an LPUSH that adds at the right end, where RPOP takes from
LpushAtTail(list, k) == Append(list, k)

\* LPUSH list key
Lpush(list, k) == <<k>> \o list

\* an RPOP that answers nil unless a second element is waiting
RpopValueNeedsTwo(list) == IF Len(list) <= 1 THEN NoKey ELSE list[Len(list)]

\* RPOP list: the element returned (nil on an empty list)
RpopValue(list) == IF Len(list) = 0 THEN NoKey ELSE list[Len(list)]

\* an RPOP that reads the tail and leaves it in the list
RpopRestKeepsTail(list) == list

\* RPOP list: the list left behind
RpopRest(list) == IF Len(list) = 0 THEN list ELSE SubSeq(list, 1, Len(list) - 1)

\* number of occurrences of k in a list
RECURSIVE Count(_, _)
Count(list, k) ==
    IF list = <<>> THEN 0
    ELSE (IF Head(list) = k THEN 1 ELSE 0) + Count(Tail(list), k)

\* members of a sorted set ordered by (score, member)
RECURSIVE ZOrder(_, _)
ZOrder(zset, S) ==
    IF S = {} THEN <<>>
    ELSE LET m == CHOOSE k \in S : \A j \in S :
                      zset[k] < zset[j] \/ (zset[k] = zset[j] /\ k <= j)
         IN  <<m>> \o ZOrder(zset, S \ {m})

\* ZRANGEBYSCORE zset lo hi
ZRangeByScore(zset, lo, hi) ==
    ZOrder(zset, {k \in Keys : zset[k] # NoTime /\ lo <= zset[k] /\ zset[k] <= hi})

Range(seq) == {seq[i] : i \in 1..Len(seq)}

\* entries held by the five status containers
Entries == Len(todo) + Cardinality(doing) + Len(done) + Len(error) + Len(null)

\* --------------------------------------------------------------- Init
InitStore ==
    /\ todo = <<>>
    /\ doing = {}
    /\ done = <<>>
    /\ error = <<>>
    /\ null = <<>>
    /\ doing_time = [k \in Keys |-> NoTime]
    /\ create_time = [k \in Keys |-> NoTime]

InitClients ==
    /\ now = StartMs
    /\ pushing = NoKey
    /\ wpc = [w \in Workers |-> "idle"]
    /\ key = [w \in Workers |-> NoKey]
    /\ timestamp = [w \in Workers |-> NoTime]
    /\ spc = [s \in Scanners |-> "idle"]
    /\ timeout_keys = [s \in Scanners |-> <<>>]
    /\ moved_count = [s \in Scanners |-> 0]
    /\ timeout_seconds = [s \in Scanners |-> 0]
    /\ tasks = <<>>
    /\ task_id = [w \in Workers |-> 0]
    /\ claims = 0
    /\ scans = 0
    /\ doing_since = [k \in Keys |-> NoTime]
    /\ task = [w \in Workers |-> NoKey]
    /\ faults = 0
    /\ doing_tasks = [w \in Workers |-> <<>>]
    /\ trace = [w \in Workers |-> NoTrace]
    /\ sweep = NoSweep
    /\ keep_alive = [w \in Workers |-> NoKeepAlive]
    /\ weights = [w \in Workers |-> <<>>]

\* Worker.__init__ (worker.py:15-16): no handler registered, not running
InitRunner ==
    /\ key_expire = NoExpire
    /\ caller = NoCaller
    /\ task_handlers = [w \in Workers |-> [t \in {} |-> TRUE]]
    /\ running = [w \in Workers |-> FALSE]

Init ==
    /\ InitStore
    /\ InitClients
    /\ InitRunner
    /\ pushed = {}
    /\ hist = [returned |-> <<>>, attempts |-> 0, initial |-> 0]

\* ------------------------------------------------------------- clock
Tick ==
    /\ now < MaxNow
    /\ now' = now + MsPerSecond
    /\ UNCHANGED <<store, producer, worker, scanner, pg, budget, doing_since, hist, runner,
                   cleaner, caller, keep_alive, weights>>

\* ------------------------------------------------- RedisQueue.push_key
\* redis.py:114-115  timestamp = now; HSET create_time key timestamp
PushHset(k) ==
    /\ pushing = NoKey
    /\ k = Cardinality(pushed) + 1
    /\ create_time' = [create_time EXCEPT ![k] = now]
    /\ pushing' = k
    /\ pushed' = pushed \cup {k}
    /\ UNCHANGED <<todo, doing, done, error, null, doing_time, now, worker,
                   scanner, pg, budget, doing_since, hist, runner, cleaner, caller, keep_alive, weights>>

\* redis.py:117  LPUSH todo key
PushLpush ==
    /\ pushing # NoKey
    /\ todo' = Lpush(todo, pushing)
    /\ pushing' = NoKey
    /\ UNCHANGED <<doing, done, error, null, doing_time, create_time, now,
                   pushed, worker, scanner, pg, budget, doing_since, hist, runner,
                   cleaner, caller, keep_alive, weights>>

\* -------------------------------------------------- RedisQueue.pop_key
\* redis.py:121-123  key = RPOP todo; nothing else happens when it is nil;
\* otherwise the clock is read as soon as the reply is in
PopRpop(w) ==
    /\ wpc[w] = "idle"
    /\ todo' = RpopRest(todo)
    /\ key' = [key EXCEPT ![w] = RpopValue(todo)]
    /\ timestamp' = [timestamp EXCEPT ![w] = IF RpopValue(todo) = NoKey THEN NoTime ELSE now]
    /\ wpc' = [wpc EXCEPT ![w] = IF RpopValue(todo) = NoKey THEN "idle" ELSE "pop_sadd"]
    /\ UNCHANGED <<doing, done, error, null, doing_time, create_time, now,
                   producer, scanner, pg, scans, doing_since, cleaner, caller, keep_alive, weights>>

\* redis.py:124  SADD doing key
PopSadd(w) ==
    /\ wpc[w] = "pop_sadd"
    /\ doing' = doing \cup {key[w]}
    /\ doing_since' = IF key[w] \in doing THEN doing_since
                      ELSE [doing_since EXCEPT ![key[w]] = now]
    /\ wpc' = [wpc EXCEPT ![w] = "pop_zadd"]
    /\ UNCHANGED <<todo, done, error, null, doing_time, create_time, now,
                   producer, key, timestamp, scanner, pg, budget, hist, runner,
                   cleaner, caller, keep_alive, weights>>

\* redis.py:125-127  ZADD doing_time {key: timestamp}; return key
PopZadd(w) ==
    /\ wpc[w] = "pop_zadd"
    /\ doing_time' = [doing_time EXCEPT ![key[w]] = timestamp[w]]
    /\ timestamp' = [timestamp EXCEPT ![w] = NoTime]
    /\ wpc' = [wpc EXCEPT ![w] = "hold"]
    /\ UNCHANGED <<todo, doing, done, error, null, create_time, now,
                   producer, key, scanner, pg, budget, doing_since, cleaner, caller, keep_alive, weights>>

\* ---------------------------------------------- RedisQueue._doing_to_xxx
\* redis.py:142-146  one MULTI/EXEC: SREM doing key; ZREM doing_time key;
\* LPUSH target key.  The LPUSH is queued whatever SREM will return.
DoingToXxx(k, target) ==
    /\ doing' = doing \ {k}
    /\ doing_time' = [doing_time EXCEPT ![k] = NoTime]
    /\ todo' = IF target = "todo" THEN Lpush(todo, k) ELSE todo
    /\ done' = IF target = "done" THEN Lpush(done, k) ELSE done
    /\ error' = IF target = "error" THEN Lpush(error, k) ELSE error
    /\ null' = IF target = "null" THEN Lpush(null, k) ELSE null
    /\ doing_since' = [doing_since EXCEPT ![k] = NoTime]
    /\ UNCHANGED create_time

\* redis.py:147  success = results[0] > 0
Success(k) == k \in doing

\* the containers have room for the entry a transition adds
Room(k) == Success(k) \/ Entries < MaxEntries

\* doing_to_done / doing_to_error / doing_to_null / doing_to_todo called by
\* the worker that holds the task (task_queue.py:583-597)
Transition(w, target) ==
    /\ wpc[w] = "hold"
    /\ Room(key[w])
    /\ DoingToXxx(key[w], target)
    /\ wpc' = [wpc EXCEPT ![w] = "idle"]
    /\ key' = [key EXCEPT ![w] = NoKey]
    /\ UNCHANGED <<now, producer, timestamp, scanner, pg, budget, hist, runner, cleaner, caller, keep_alive, weights>>

\* a cancellation that reaches the worker inside get_task: `task` is still
\* None in Worker.run, nothing is requeued and the worker ends (worker.py:86-93)
WorkerStop(w) ==
    /\ wpc[w] \in {"pop_sadd", "pop_zadd"}
    /\ Cardinality({v \in Workers : wpc[v] = "stopped"}) < MaxStops
    /\ wpc' = [wpc EXCEPT ![w] = "stopped"]
    /\ UNCHANGED <<store, now, producer, key, timestamp, scanner, pg, budget,
                   doing_since, hist, runner, cleaner, caller, keep_alive, weights>>

\* ------------------------------------- RedisQueue.move_timeout_to_todo
\* redis.py:195-196  cutoff = now - timeout_seconds * 1000;
\* ZRANGEBYSCORE doing_time 0 cutoff
GetTimeoutDoingKeys(t) ==
    ZRangeByScore(doing_time, 0, now - t * MsPerSecond)

\* redis.py:199-200  timeout_keys = get_timeout_doing_keys(); moved_count = 0
\* (wpc is left to the caller's specification)
ScanStart(s, t) ==
    /\ spc[s] = "idle"
    /\ timeout_seconds' = [timeout_seconds EXCEPT ![s] = t]
    /\ timeout_keys' = [timeout_keys EXCEPT ![s] = GetTimeoutDoingKeys(t)]
    /\ moved_count' = [moved_count EXCEPT ![s] = 0]
    /\ spc' = [spc EXCEPT ![s] = "loop"]
    /\ UNCHANGED <<store, now, producer, key, timestamp, pg, claims, doing_since, hist,
                   runner, cleaner, caller, keep_alive, weights>>

\* redis.py:202-204  for key in timeout_keys: if doing_to_todo(key): moved_count += 1
ScanMove(s) ==
    /\ spc[s] = "loop"
    /\ timeout_keys[s] # <<>>
    /\ LET k == Head(timeout_keys[s]) IN
        /\ Room(k)
        /\ DoingToXxx(k, "todo")
        /\ moved_count' = [moved_count EXCEPT ![s] = @ + (IF Success(k) THEN 1 ELSE 0)]
    /\ timeout_keys' = [timeout_keys EXCEPT ![s] = Tail(@)]
    /\ UNCHANGED <<now, producer, worker, spc, timeout_seconds, pg, budget, hist, runner, cleaner, caller, keep_alive, weights>>

\* redis.py:206-207  return moved_count
ScanReturn(s) ==
    /\ spc[s] = "loop"
    /\ timeout_keys[s] = <<>>
    /\ spc' = [spc EXCEPT ![s] = "idle"]
    /\ moved_count' = [moved_count EXCEPT ![s] = 0]
    /\ timeout_seconds' = [timeout_seconds EXCEPT ![s] = 0]
    /\ UNCHANGED <<store, now, producer, key, timestamp, timeout_keys, pg, budget,
                   doing_since, hist, runner, cleaner, caller, keep_alive, weights>>

\* ------------------------------------------------------------- Spec
\* producers, claimers and lease-timeout scanners on one key-value queue
Claim(w) ==
    /\ claims < MaxClaims
    /\ PopRpop(w)
    /\ claims' = claims + (IF RpopValue(todo) = NoKey THEN 0 ELSE 1)
    /\ UNCHANGED <<hist, runner>>

Scan(s, t) ==
    /\ scans < MaxScans
    /\ ScanStart(s, t)
    /\ scans' = scans + 1
    /\ UNCHANGED wpc

Next ==
    \/ Tick
    \/ \E k \in Keys : PushHset(k)
    \/ PushLpush
    \/ \E w \in Workers : Claim(w)
    \/ \E w \in Workers : PopSadd(w)
    \/ \E w \in Workers : (PopZadd(w) /\ UNCHANGED <<hist, runner>>)
    \/ \E w \in Workers, target \in Targets : Transition(w, target)
    \/ \E w \in Workers : WorkerStop(w)
    \/ \E s \in Scanners, t \in 0..MaxTimeout : Scan(s, t)
    \/ \E s \in Scanners : ScanMove(s)
    \/ \E s \in Scanners : (ScanReturn(s) /\ UNCHANGED wpc)

Spec == Init /\ [][Next]_vars

\* -------------------------------------------------------- SpecClaim
\* claimers racing for the K keys of a queue nobody pushes to any more:
\* the state after push_key(1), ..., push_key(K) at StartMs
InitClaim ==
    /\ InitClients
    /\ InitRunner
    /\ \E K \in 0..NumKeys :
        /\ todo = [i \in 1..K |-> K + 1 - i]
        /\ pushed = 1..K
        /\ create_time = [k \in Keys |-> IF k <= K THEN StartMs ELSE NoTime]
        /\ hist = [returned |-> <<>>, attempts |-> 0, initial |-> K]
    /\ doing = {}
    /\ done = <<>>
    /\ error = <<>>
    /\ null = <<>>
    /\ doing_time = [k \in Keys |-> NoTime]

\* a call of pop_key (TaskQueue.get_task, task_queue.py:577-578)
ClaimAttempt(w) ==
    /\ hist.attempts < MaxAttempts
    /\ PopRpop(w)
    /\ hist' = [hist EXCEPT !.attempts = @ + 1]
    /\ UNCHANGED <<claims, runner>>

\* pop_key returns the key to its caller (redis.py:127)
ClaimReturn(w) ==
    /\ PopZadd(w)
    /\ hist' = [hist EXCEPT !.returned = Append(@, key[w])]
    /\ UNCHANGED runner

NextClaim ==
    \/ Tick
    \/ \E w \in Workers : ClaimAttempt(w)
    \/ \E w \in Workers : PopSadd(w)
    \/ \E w \in Workers : ClaimReturn(w)
    \/ \E w \in Workers, target \in Targets \ {"todo"} : Transition(w, target)

SpecClaim == InitClaim /\ [][NextClaim]_vars

\* ----------------------------------------------------------- SpecPG
\* PostgreSQLQueue: claimers on separate connections, each with
\* autocommit = True (postgre.py:38-46), so every statement is its own
\* transaction and the row lock of FOR UPDATE ends with the SELECT
Row(k) == [key |-> k, status |-> "todo", created_at |-> now, start_time |-> NoTime]

\* postgre.py:106-110  INSERT INTO tasks (queue_id, key, status) VALUES (.., 'todo')
PgPushKey(k) ==
    /\ k = Cardinality(pushed) + 1
    /\ tasks' = Append(tasks, Row(k))
    /\ pushed' = pushed \cup {k}
    /\ UNCHANGED <<store, now, pushing, worker, scanner, task_id, budget,
                   doing_since, hist, runner, cleaner, caller, keep_alive, weights>>

\* ids of the todo rows that ORDER BY created_at ASC LIMIT 1 may return: no row
\* is locked when the statement starts, so SKIP LOCKED skips nothing
OldestTodo ==
    {i \in 1..Len(tasks) :
        /\ tasks[i].status = "todo"
        /\ \A j \in 1..Len(tasks) :
              tasks[j].status = "todo" => tasks[i].created_at <= tasks[j].created_at}

\* postgre.py:115-119  SELECT id, key ... FOR UPDATE SKIP LOCKED; fetchone()
PgSelect(w) ==
    /\ wpc[w] = "idle"
    /\ hist.attempts < MaxAttempts
    /\ hist' = [hist EXCEPT !.attempts = @ + 1]
    /\ IF OldestTodo = {}
       THEN UNCHANGED <<wpc, key, task_id>>
       ELSE \E i \in OldestTodo :
              /\ task_id' = [task_id EXCEPT ![w] = i]
              /\ key' = [key EXCEPT ![w] = tasks[i].key]
              /\ wpc' = [wpc EXCEPT ![w] = "pg_update"]
    /\ UNCHANGED <<store, now, producer, timestamp, scanner, tasks, budget, doing_since,
                   runner, cleaner, caller, keep_alive, weights>>

\* postgre.py:124-130  UPDATE tasks SET status = 'doing', start_time = now
\* WHERE id = task_id; return key
PgUpdate(w) ==
    /\ wpc[w] = "pg_update"
    /\ tasks' = [tasks EXCEPT ![task_id[w]].status = "doing",
                              ![task_id[w]].start_time = now]
    /\ wpc' = [wpc EXCEPT ![w] = "hold"]
    /\ hist' = [hist EXCEPT !.returned = Append(@, task_id[w])]
    /\ UNCHANGED <<store, now, producer, key, timestamp, scanner, task_id, budget,
                   doing_since, runner, cleaner, caller, keep_alive, weights>>

NextPG ==
    \/ Tick
    \/ \E k \in Keys : PgPushKey(k)
    \/ \E w \in Workers : PgSelect(w)
    \/ \E w \in Workers : PgUpdate(w)

SpecPG == Init /\ [][NextPG]_vars

\* ---------------------------------------------------------- SpecWorker
\* Worker.run of worker.py, one process per worker, over the key-value
\* backend.  get_task(task_type) is TaskQueue.get_task on the queue of the
\* type (task_queue.py:577-581); get_info only reads.

\* worker.py:41-48  the entry register_task stores for a task type
HandlerInfo(result_callback, keep_alive_callback) ==
    [result_callback |-> result_callback, keep_alive_callback |-> keep_alive_callback]

\* workers whose run() has been called (worker.py:56) on a queue that holds
\* some tasks; type "a" is registered, type "b" may not be
InitWorker ==
    /\ InitClients
    /\ \E K \in 0..NumKeys :
        /\ todo = [i \in 1..K |-> K + 1 - i]
        /\ pushed = 1..K
        /\ create_time = [k \in Keys |-> IF k <= K THEN StartMs ELSE NoTime]
        /\ hist = [returned |-> <<>>, attempts |-> 0, initial |-> K]
    /\ doing = {}
    /\ done = <<>>
    /\ error = <<>>
    /\ null = <<>>
    /\ doing_time = [k \in Keys |-> NoTime]
    /\ \E rc \in BOOLEAN, ka \in BOOLEAN, types \in {{"a"}, {"a", "b"}} :
          task_handlers = [w \in Workers |-> [t \in types |-> HandlerInfo(rc, ka)]]
    /\ running = [w \in Workers |-> TRUE]
    /\ key_expire = NoExpire
    /\ caller = NoCaller

\* the positions of Worker.run inside its try block (worker.py:63-84)
InTry == {"idle", "pop_sadd", "pop_zadd", "hold", "handler", "callback",
          "mark_done", "mark_error", "processed"}

\* the positions inside the try block of _process_task (worker.py:123-156)
InProcess == {"handler", "callback", "mark_done"}

\* an except clause that catches nothing
CatchesNothing(exc) == FALSE

\* worker.py:158  `except Exception` of _process_task: what it catches
Catches(exc) == exc = "Exception"

\* an exception leaves the try block of run: worker.py:86 or worker.py:94;
\* noted is the history so far
Unwind(w, exc, noted) ==
    /\ wpc' = [wpc EXCEPT ![w] = IF exc = "KeyboardInterrupt" THEN "except_ki" ELSE "finally"]
    /\ trace' = [noted EXCEPT ![w].exit = exc, ![w].at = wpc[w]]

\* an exception raised inside the try block of _process_task (worker.py:123-161)
RaiseInProcess(w, exc, noted) ==
    IF Catches(exc)
    THEN /\ wpc' = [wpc EXCEPT ![w] = "mark_error"]
         /\ trace' = noted
    ELSE Unwind(w, exc, noted)

HasKeepAlive(w) == \E t \in DOMAIN task_handlers[w] : task_handlers[w][t].keep_alive_callback

\* worker.py:68-73  the idle keep_alive_callback raises
IdleHeartbeatRaises(w) ==
    /\ wpc[w] = "idle" /\ running[w]
    /\ HasKeepAlive(w)
    /\ wpc' = [wpc EXCEPT ![w] = "finally"]
    /\ trace' = [trace EXCEPT ![w].exit = "Exception", ![w].at = "idle", ![w].beat = "idle"]
    /\ UNCHANGED <<store, now, producer, key, timestamp, scanner, pg, budget,
                   doing_since, hist, task, running, task_handlers, faults, doing_tasks,
                   cleaner, caller, keep_alive, weights>>

\* worker.py:68-69, 75  task_type is drawn among the registered types and
\* task = self.queue.get_task(task_type) is called: the RPOP of pop_key on the
\* one backend queue the facade holds (task_queue.py:548-558, 577-581)
GetTask(w) ==
    /\ running[w]
    /\ \E task_type \in DOMAIN task_handlers[w] :
          trace' = [trace EXCEPT ![w].task_type = task_type]
    /\ PopRpop(w)
    /\ UNCHANGED <<claims, hist, task, running, task_handlers, faults, doing_tasks>>

\* worker.py:75  get_task returns and `task` is bound
GetTaskReturn(w) ==
    /\ PopZadd(w)
    /\ task' = [task EXCEPT ![w] = key[w]]
    /\ UNCHANGED <<hist, running, task_handlers, faults, trace, doing_tasks>>

\* worker.py:124-128  no handler for the task's type: log and return
NoHandler(w) ==
    /\ wpc[w] = "hold"
    /\ TaskType(task[w]) \notin DOMAIN task_handlers[w]
    /\ wpc' = [wpc EXCEPT ![w] = "processed"]
    /\ UNCHANGED <<store, now, producer, key, timestamp, scanner, pg, budget,
                   doing_since, hist, runner, cleaner, caller, keep_alive, weights>>

\* worker.py:130-146  the keep-alive thread is started and the handler called
HandlerStart(w) ==
    /\ wpc[w] = "hold"
    /\ TaskType(task[w]) \in DOMAIN task_handlers[w]
    /\ wpc' = [wpc EXCEPT ![w] = "handler"]
    /\ UNCHANGED <<store, now, producer, key, timestamp, scanner, pg, budget,
                   doing_since, hist, runner, cleaner, caller, keep_alive, weights>>

\* worker.py:183-186  the per-task keep-alive callback raises in its thread
KeepAliveRaises(w) ==
    /\ wpc[w] = "handler"
    /\ task_handlers[w][TaskType(task[w])].keep_alive_callback
    /\ trace[w].beat = "none"
    /\ trace' = [trace EXCEPT ![w].beat = "task"]
    /\ UNCHANGED <<store, now, producer, worker, scanner, pg, budget,
                   doing_since, hist, task, running, task_handlers, faults, doing_tasks,
                   cleaner, caller, keep_alive, weights>>

\* a worker that reports the task as failed when its handler has returned
AfterHandlerMarksError(handler_info) == "mark_error"

\* a worker that marks the task done without calling the result callback
AfterHandlerSkipsCallback(handler_info) == "mark_done"

\* worker.py:149-154  what follows the handler's return
AfterHandler(handler_info) ==
    IF handler_info.result_callback THEN "callback" ELSE "mark_done"

\* worker.py:146-151  the handler returns
HandlerReturns(w) ==
    /\ wpc[w] = "handler"
    /\ wpc' = [wpc EXCEPT ![w] = AfterHandler(task_handlers[w][TaskType(task[w])])]
    /\ trace' = [trace EXCEPT ![w].handler = "returned"]
    /\ UNCHANGED <<store, now, producer, key, timestamp, scanner, pg, budget,
                   doing_since, hist, task, running, task_handlers, faults, doing_tasks,
                   cleaner, caller, keep_alive, weights>>

\* worker.py:146, 158-161  the handler raises
HandlerRaises(w) ==
    /\ wpc[w] = "handler"
    /\ RaiseInProcess(w, "Exception", [trace EXCEPT ![w].handler = "raised"])
    /\ UNCHANGED <<store, now, producer, key, timestamp, scanner, pg, budget,
                   doing_since, hist, task, running, task_handlers, faults, doing_tasks,
                   cleaner, caller, keep_alive, weights>>

\* worker.py:149-151  the result callback returns
CallbackReturns(w) ==
    /\ wpc[w] = "callback"
    /\ wpc' = [wpc EXCEPT ![w] = "mark_done"]
    /\ trace' = [trace EXCEPT ![w].callback = "returned"]
    /\ UNCHANGED <<store, now, producer, key, timestamp, scanner, pg, budget,
                   doing_since, hist, task, running, task_handlers, faults, doing_tasks,
                   cleaner, caller, keep_alive, weights>>

\* worker.py:151, 158-161  the result callback raises
CallbackRaises(w) ==
    /\ wpc[w] = "callback"
    /\ RaiseInProcess(w, "Exception", [trace EXCEPT ![w].callback = "raised"])
    /\ UNCHANGED <<store, now, producer, key, timestamp, scanner, pg, budget,
                   doing_since, hist, task, running, task_handlers, faults, doing_tasks,
                   cleaner, caller, keep_alive, weights>>

\* worker.py:154  self.queue.mark_done(task)
MarkDone(w) ==
    /\ wpc[w] = "mark_done"
    /\ DoingToXxx(task[w], "done")
    /\ wpc' = [wpc EXCEPT ![w] = "processed"]
    /\ UNCHANGED <<now, producer, key, timestamp, scanner, pg, budget, hist, runner, cleaner, caller, keep_alive, weights>>

\* worker.py:161  self.queue.mark_error(task)
MarkError(w) ==
    /\ wpc[w] = "mark_error"
    /\ DoingToXxx(task[w], "error")
    /\ wpc' = [wpc EXCEPT ![w] = "processed"]
    /\ UNCHANGED <<now, producer, key, timestamp, scanner, pg, budget, hist, runner, cleaner, caller, keep_alive, weights>>

\* worker.py:79-81  _process_task has returned: task = None, sleep, next iteration
ClearTask(w) ==
    /\ wpc[w] = "processed"
    /\ wpc' = [wpc EXCEPT ![w] = "idle"]
    /\ task' = [task EXCEPT ![w] = NoKey]
    /\ key' = [key EXCEPT ![w] = NoKey]
    /\ trace' = [trace EXCEPT ![w] = NoTrace]
    /\ UNCHANGED <<store, now, producer, timestamp, scanner, pg, budget,
                   doing_since, hist, running, task_handlers, faults, doing_tasks,
                   cleaner, caller, keep_alive, weights>>

\* a backend call raises (the connection is lost): inside get_task the
\* exception leaves the loop (worker.py:94); mark_done's is caught by
\* worker.py:158; mark_error's, raised in the except clause, leaves the loop
BackendRaises(w) ==
    /\ faults < MaxFaults
    /\ faults' = faults + 1
    /\ \/ /\ wpc[w] \in {"idle", "pop_sadd", "pop_zadd", "mark_error"}
          /\ running[w]
          /\ Unwind(w, "Exception", trace)
       \/ /\ wpc[w] = "mark_done"
          /\ RaiseInProcess(w, "Exception", trace)
    /\ UNCHANGED <<store, now, producer, key, timestamp, scanner, pg, budget,
                   doing_since, hist, task, running, task_handlers, doing_tasks,
                   cleaner, caller, keep_alive, weights>>

\* a KeyboardInterrupt reaches the worker's thread inside the try block of run
Interrupt(w) ==
    /\ wpc[w] \in InTry
    /\ running[w]
    /\ IF wpc[w] \in InProcess
       THEN RaiseInProcess(w, "KeyboardInterrupt", trace)
       ELSE Unwind(w, "KeyboardInterrupt", trace)
    /\ UNCHANGED <<store, now, producer, key, timestamp, scanner, pg, budget,
                   doing_since, hist, task, running, task_handlers, faults, doing_tasks,
                   cleaner, caller, keep_alive, weights>>

\* worker.py:86-93  except KeyboardInterrupt: requeue the held task, if any
InterruptRequeue(w) ==
    /\ wpc[w] = "except_ki"
    /\ IF task[w] # NoKey
       THEN /\ DoingToXxx(task[w], "todo")
            /\ trace' = [trace EXCEPT ![w].requeued = TRUE]
       ELSE UNCHANGED <<store, doing_since, trace>>
    /\ wpc' = [wpc EXCEPT ![w] = "finally"]
    /\ UNCHANGED <<now, producer, key, timestamp, scanner, pg, budget, hist,
                   task, running, task_handlers, faults, doing_tasks, cleaner, caller, keep_alive, weights>>

\* worker.py:98-108  finally: running = False, the last heartbeats return
RunReturns(w) ==
    /\ wpc[w] = "finally"
    /\ running' = [running EXCEPT ![w] = FALSE]
    /\ wpc' = [wpc EXCEPT ![w] = "stopped"]
    /\ trace' = [trace EXCEPT ![w].out = "returned"]
    /\ UNCHANGED <<store, now, producer, key, timestamp, scanner, pg, budget,
                   doing_since, hist, task, task_handlers, faults, doing_tasks,
                   cleaner, caller, keep_alive, weights>>

\* worker.py:102-104  a keep_alive_callback called in the finally block raises
FinalHeartbeatRaises(w) ==
    /\ wpc[w] = "finally"
    /\ HasKeepAlive(w)
    /\ running' = [running EXCEPT ![w] = FALSE]
    /\ wpc' = [wpc EXCEPT ![w] = "stopped"]
    /\ trace' = [trace EXCEPT ![w].out = "raised", ![w].beat = "final"]
    /\ UNCHANGED <<store, now, producer, key, timestamp, scanner, pg, budget,
                   doing_since, hist, task, task_handlers, faults, doing_tasks,
                   cleaner, caller, keep_alive, weights>>

NextWorker ==
    \/ \E w \in Workers : IdleHeartbeatRaises(w)
    \/ \E w \in Workers : GetTask(w)
    \/ \E w \in Workers : PopSadd(w)
    \/ \E w \in Workers : GetTaskReturn(w)
    \/ \E w \in Workers : NoHandler(w)
    \/ \E w \in Workers : HandlerStart(w)
    \/ \E w \in Workers : KeepAliveRaises(w)
    \/ \E w \in Workers : HandlerReturns(w)
    \/ \E w \in Workers : HandlerRaises(w)
    \/ \E w \in Workers : CallbackReturns(w)
    \/ \E w \in Workers : CallbackRaises(w)
    \/ \E w \in Workers : MarkDone(w)
    \/ \E w \in Workers : MarkError(w)
    \/ \E w \in Workers : ClearTask(w)
    \/ \E w \in Workers : BackendRaises(w)
    \/ \E w \in Workers : Interrupt(w)
    \/ \E w \in Workers : InterruptRequeue(w)
    \/ \E w \in Workers : RunReturns(w)
    \/ \E w \in Workers : FinalHeartbeatRaises(w)

SpecWorker == InitWorker /\ [][NextWorker]_vars

\* ---------------------------------------------------------- SpecLegacy
\* the Worker of task_queue.py (the class the package exports): every
\* iteration first requeues the timed-out tasks, and a KeyboardInterrupt
\* requeues every task found in doing.  Worker w scans as scanner w.

\* workers constructed but not started; handlers carry no callbacks
\* (task_queue.py:628-633)
InitLegacy ==
    /\ InitClients
    /\ \E K \in 0..NumKeys :
        /\ todo = [i \in 1..K |-> K + 1 - i]
        /\ pushed = 1..K
        /\ create_time = [k \in Keys |-> IF k <= K THEN StartMs ELSE NoTime]
        /\ hist = [returned |-> <<>>, attempts |-> 0, initial |-> K]
    /\ doing = {}
    /\ done = <<>>
    /\ error = <<>>
    /\ null = <<>>
    /\ doing_time = [k \in Keys |-> NoTime]
    /\ \E types \in {{"a"}, {"a", "b"}} :
          task_handlers = [w \in Workers |-> [t \in types |-> HandlerInfo(FALSE, FALSE)]]
    /\ running = [w \in Workers |-> FALSE]
    /\ key_expire = NoExpire
    /\ caller = NoCaller

\* the positions of the legacy Worker.run inside its try block
\* (task_queue.py:639-649)
LegacyInTry == {"top", "timeout", "requeue", "idle", "pop_sadd", "pop_zadd", "hold",
                "handler", "mark_done", "mark_error", "processed"}

\* task_queue.py:635-640  run(): running = True, enter the loop
LegacyRun(w) ==
    /\ wpc[w] = "idle" /\ ~running[w] /\ trace[w].exit = "none"
    /\ running' = [running EXCEPT ![w] = TRUE]
    /\ wpc' = [wpc EXCEPT ![w] = "top"]
    /\ UNCHANGED <<store, now, producer, key, timestamp, scanner, pg, budget,
                   doing_since, hist, task, task_handlers, faults, doing_tasks, trace,
                   cleaner, caller, keep_alive, weights>>

\* task_queue.py:682-684  timeout_tasks = get_timeout_tasks(self.timeout_seconds)
LegacyTimeoutCheck(w, t) ==
    /\ wpc[w] = "top"
    /\ GetTimeoutDoingKeys(t) = <<>> \/ scans < MaxScans
    /\ scans' = scans + (IF GetTimeoutDoingKeys(t) = <<>> THEN 0 ELSE 1)
    /\ wpc' = [wpc EXCEPT ![w] = IF GetTimeoutDoingKeys(t) = <<>> THEN "idle" ELSE "timeout"]
    /\ timeout_seconds' = [timeout_seconds EXCEPT ![w] =
          IF GetTimeoutDoingKeys(t) = <<>> THEN 0 ELSE t]
    /\ UNCHANGED <<store, now, producer, key, timestamp, spc, timeout_keys, moved_count,
                   pg, claims, doing_since, hist, runner, cleaner, caller, keep_alive, weights>>

\* task_queue.py:686  requeue_timeout_tasks: move_timeout_to_todo reads again
LegacyRequeueTimeout(w) ==
    /\ wpc[w] = "timeout"
    /\ ScanStart(w, timeout_seconds[w])
    /\ wpc' = [wpc EXCEPT ![w] = "requeue"]
    /\ UNCHANGED scans

\* task_queue.py:686-687  move_timeout_to_todo returns
LegacyTimeoutDone(w) ==
    /\ wpc[w] = "requeue"
    /\ ScanReturn(w)
    /\ wpc' = [wpc EXCEPT ![w] = "idle"]

\* task_queue.py:643  task = self.queue.get_task(): the RPOP of pop_key
LegacyGetTask(w) ==
    /\ running[w]
    /\ todo # <<>>
    /\ claims < MaxClaims
    /\ PopRpop(w)
    /\ claims' = claims + 1
    /\ UNCHANGED <<hist, runner>>

\* task_queue.py:643, 648-649  get_task returns None: sleep, next iteration
LegacyEmptyPoll(w) ==
    /\ wpc[w] = "idle" /\ running[w]
    /\ todo = <<>>
    /\ wpc' = [wpc EXCEPT ![w] = "top"]
    /\ UNCHANGED <<store, now, producer, key, timestamp, scanner, pg, budget,
                   doing_since, hist, runner, cleaner, caller, keep_alive, weights>>

\* task_queue.py:666-670  no handler for the task's type: mark_null
LegacyNoHandler(w) ==
    /\ wpc[w] = "hold"
    /\ TaskType(task[w]) \notin DOMAIN task_handlers[w]
    /\ Room(task[w])
    /\ DoingToXxx(task[w], "null")
    /\ wpc' = [wpc EXCEPT ![w] = "processed"]
    /\ UNCHANGED <<now, producer, key, timestamp, scanner, pg, budget, hist, runner, cleaner, caller, keep_alive, weights>>

\* task_queue.py:646-647  _process_task has returned: sleep, next iteration
LegacyProcessed(w) ==
    /\ wpc[w] = "processed"
    /\ wpc' = [wpc EXCEPT ![w] = "top"]
    /\ task' = [task EXCEPT ![w] = NoKey]
    /\ key' = [key EXCEPT ![w] = NoKey]
    /\ trace' = [trace EXCEPT ![w] = NoTrace]
    /\ UNCHANGED <<store, now, producer, timestamp, scanner, pg, budget,
                   doing_since, hist, running, task_handlers, faults, doing_tasks,
                   cleaner, caller, keep_alive, weights>>

\* a KeyboardInterrupt reaches the legacy worker inside the try block
\* (task_queue.py:651): whatever call was running is abandoned
LegacyInterrupt(w) ==
    /\ wpc[w] \in LegacyInTry
    /\ running[w]
    /\ wpc' = [wpc EXCEPT ![w] = "cleanup"]
    /\ trace' = [trace EXCEPT ![w].exit = "KeyboardInterrupt", ![w].at = wpc[w]]
    /\ spc' = [spc EXCEPT ![w] = "idle"]
    /\ timeout_keys' = [timeout_keys EXCEPT ![w] = <<>>]
    /\ moved_count' = [moved_count EXCEPT ![w] = 0]
    /\ timeout_seconds' = [timeout_seconds EXCEPT ![w] = 0]
    /\ UNCHANGED <<store, now, producer, key, timestamp, pg, budget,
                   doing_since, hist, task, running, task_handlers, faults, doing_tasks,
                   cleaner, caller, keep_alive, weights>>

\* SMEMBERS doing, as a list
Smembers(S) == ZOrder([k \in Keys |-> 0], S)

\* task_queue.py:694-695  doing_tasks = self.queue.get_doing_tasks()
LegacyCleanupRead(w) ==
    /\ wpc[w] = "cleanup"
    /\ doing_tasks' = [doing_tasks EXCEPT ![w] = Smembers(doing)]
    /\ wpc' = [wpc EXCEPT ![w] = "cleanup_loop"]
    /\ UNCHANGED <<store, now, producer, key, timestamp, scanner, pg, budget,
                   doing_since, hist, task, running, task_handlers, faults, trace,
                   cleaner, caller, keep_alive, weights>>

\* task_queue.py:700-706  for task in doing_tasks: requeue_task(task)
LegacyCleanupRequeue(w) ==
    /\ wpc[w] = "cleanup_loop"
    /\ doing_tasks[w] # <<>>
    /\ Room(Head(doing_tasks[w]))
    /\ DoingToXxx(Head(doing_tasks[w]), "todo")
    /\ doing_tasks' = [doing_tasks EXCEPT ![w] = Tail(@)]
    /\ trace' = [trace EXCEPT ![w].requeued = TRUE]
    /\ UNCHANGED <<now, producer, worker, scanner, pg, budget, hist,
                   task, running, task_handlers, faults, cleaner, caller, keep_alive, weights>>

\* task_queue.py:708-712  the cleanup is over
LegacyCleanupDone(w) ==
    /\ wpc[w] = "cleanup_loop"
    /\ doing_tasks[w] = <<>>
    /\ wpc' = [wpc EXCEPT ![w] = "finally"]
    /\ UNCHANGED <<store, now, producer, key, timestamp, scanner, pg, budget,
                   doing_since, hist, runner, cleaner, caller, keep_alive, weights>>

NextLegacy ==
    \/ \E w \in Workers : LegacyRun(w)
    \/ \E w \in Workers, t \in 0..MaxTimeout : LegacyTimeoutCheck(w, t)
    \/ \E w \in Workers : LegacyRequeueTimeout(w)
    \/ \E w \in Workers : ScanMove(w)
    \/ \E w \in Workers : LegacyTimeoutDone(w)
    \/ \E w \in Workers : LegacyGetTask(w)
    \/ \E w \in Workers : LegacyEmptyPoll(w)
    \/ \E w \in Workers : PopSadd(w)
    \/ \E w \in Workers : GetTaskReturn(w)
    \/ \E w \in Workers : LegacyNoHandler(w)
    \/ \E w \in Workers : HandlerStart(w)
    \/ \E w \in Workers : HandlerReturns(w)
    \/ \E w \in Workers : HandlerRaises(w)
    \/ \E w \in Workers : (Room(task[w]) /\ MarkDone(w))
    \/ \E w \in Workers : (Room(task[w]) /\ MarkError(w))
    \/ \E w \in Workers : LegacyProcessed(w)
    \/ \E w \in Workers : LegacyInterrupt(w)
    \/ \E w \in Workers : LegacyCleanupRead(w)
    \/ \E w \in Workers : LegacyCleanupRequeue(w)
    \/ \E w \in Workers : LegacyCleanupDone(w)
    \/ \E w \in Workers : RunReturns(w)

SpecLegacy == InitLegacy /\ [][NextLegacy]_vars

\* ------------------------------------------------ RedisQueue.cleanup_expired_keys
\* The cleanup thread of one queue object (base.py:22-52) sweeps while workers
\* claim and transition keys.  Each backend command of the sweep is one step.

\* the TTL configurations: every status, or some of them, with one TTL value
ExpireConfigs ==
    { [S \in D |-> ttl] :
        D \in { {"todo", "doing", "done", "error", "null"}, {"todo", "done"}, {"doing", "error"} },
        ttl \in 0..MaxTimeout }

InitSweep ==
    /\ InitClients
    /\ task_handlers = [w \in Workers |-> [t \in {} |-> TRUE]]
    /\ running = [w \in Workers |-> FALSE]
    /\ key_expire \in ExpireConfigs
    /\ caller = NoCaller
    /\ \E K \in 1..NumKeys :
        /\ todo = [i \in 1..K |-> K + 1 - i]
        /\ pushed = 1..K
        /\ create_time = [k \in Keys |-> IF k <= K THEN StartMs ELSE NoTime]
        /\ hist = [returned |-> <<>>, attempts |-> 0, initial |-> K]
    /\ doing = {}
    /\ done = <<>>
    /\ error = <<>>
    /\ null = <<>>
    /\ doing_time = [k \in Keys |-> NoTime]

\* expire_ms = self.key_expire[status] * 1000
ExpireMs(S) == key_expire[S] * MsPerSecond

\* LRANGE name 0 -1 / SMEMBERS name: the keys the sweep iterates over
StatusKeys(S) ==
    CASE S = "todo" -> todo
      [] S = "doing" -> Smembers(doing)
      [] S = "done" -> done
      [] S = "error" -> error
      [] S = "null" -> null

\* LREM name 0 key: every occurrence is removed
Lrem(list, k) == SelectSeq(list, LAMBDA x : x # k)

\* the first status from position i on that has a TTL ("if 'x' in self.key_expire")
RECURSIVE NextPhase(_)
NextPhase(i) ==
    IF i > Len(Phases) THEN i
    ELSE IF Phases[i] \in DOMAIN key_expire THEN i
    ELSE NextPhase(i + 1)

\* the for loop over the snapshot: next key, or the next status once the snapshot is used up
Advance(rec) ==
    IF rec.keys = <<>>
    THEN [rec EXCEPT !.pc = "read", !.status = NextPhase(rec.status + 1)]
    ELSE [rec EXCEPT !.pc = "lookup"]

\* history: the entries of each swept status that are already past their TTL
ExpiredNow ==
    [S \in DOMAIN key_expire |->
        { k \in Keys :
            IF S = "doing"
            THEN k \in doing /\ doing_since[k] # NoTime /\ now - doing_since[k] > ExpireMs(S)
            ELSE Count(StatusKeys(S), k) > 0 /\ now - StartMs > ExpireMs(S) }]

\* redis.py:209-215  cleanup_expired_keys is entered: total_removed = 0 and
\* now is read once
SweepEntry ==
    [sweep EXCEPT !.pc = "read", !.status = NextPhase(1), !.now = now, !.keys = <<>>,
                  !.total_removed = 0, !.expired = ExpiredNow]

\* the sweep starts: key_expire is not empty, now is read once, total_removed = 0
SweepStart ==
    /\ sweep.pc = "idle"
    /\ sweep.passes < MaxSweeps
    /\ key_expire # NoExpire
    /\ sweep' = [SweepEntry EXCEPT !.passes = sweep.passes + 1,
                                   !.before = <<wpc, claims>>,
                                   !.again = /\ sweep.passes > 0
                                             /\ sweep.now = now
                                             /\ sweep.before = <<wpc, claims>>]
    /\ UNCHANGED <<store, now, producer, worker, scanner, pg, budget, doing_since, hist,
                   runner, key_expire, caller, keep_alive, weights>>

\* the snapshot of one status: LRANGE (todo, done, error, null) or SMEMBERS (doing)
SweepRead ==
    /\ sweep.pc = "read"
    /\ sweep.status <= Len(Phases)
    /\ sweep' = Advance([sweep EXCEPT !.keys = StatusKeys(Phases[sweep.status])])
    /\ UNCHANGED <<store, now, producer, worker, scanner, pg, budget, doing_since, hist,
                   runner, key_expire, caller, keep_alive, weights>>

\* HGET create_time key, or ZSCORE doing_time key for doing, and the age test
SweepLookup ==
    /\ sweep.pc = "lookup"
    /\ LET k == Head(sweep.keys)
           S == Phases[sweep.status]
           stamp == IF S = "doing" THEN doing_time[k] ELSE create_time[k]
       IN  IF stamp # NoTime /\ sweep.now - stamp > ExpireMs(S)
           THEN sweep' = [sweep EXCEPT !.pc = "remove"]
           ELSE sweep' = Advance([sweep EXCEPT !.keys = Tail(@)])
    /\ UNCHANGED <<store, now, producer, worker, scanner, pg, budget, doing_since, hist,
                   runner, key_expire, caller, keep_alive, weights>>

\* the pipeline that deletes the key, and total_removed += 1
SweepRemove ==
    /\ sweep.pc = "remove"
    /\ LET k == Head(sweep.keys)
           S == Phases[sweep.status]
       IN  /\ todo' = IF S = "todo" THEN Lrem(todo, k) ELSE todo
           /\ done' = IF S = "done" THEN Lrem(done, k) ELSE done
           /\ error' = IF S = "error" THEN Lrem(error, k) ELSE error
           /\ null' = IF S = "null" THEN Lrem(null, k) ELSE null
           /\ doing' = IF S = "doing" THEN doing \ {k} ELSE doing
           /\ doing_time' = IF S = "doing" THEN [doing_time EXCEPT ![k] = NoTime] ELSE doing_time
           /\ doing_since' = IF S = "doing" THEN [doing_since EXCEPT ![k] = NoTime] ELSE doing_since
           /\ create_time' = [create_time EXCEPT ![k] = NoTime]
           /\ sweep' = Advance([sweep EXCEPT !.keys = Tail(@), !.total_removed = @ + 1])
    /\ UNCHANGED <<now, producer, worker, scanner, pg, budget, hist, runner, key_expire, caller, keep_alive, weights>>

\* return total_removed
SweepReturn ==
    /\ sweep.pc = "read"
    /\ sweep.status > Len(Phases)
    /\ sweep' = [sweep EXCEPT !.pc = "idle", !.status = 0, !.expired = <<>>]
    /\ UNCHANGED <<store, now, producer, worker, scanner, pg, budget, doing_since, hist,
                   runner, key_expire, caller, keep_alive, weights>>

\* the workers that run beside the sweep
SweepWorkers == {w \in Workers : w <= MaxSweepWorkers}

NextSweep ==
    \/ Tick
    \/ \E w \in SweepWorkers : Claim(w)
    \/ \E w \in SweepWorkers : PopSadd(w)
    \/ \E w \in SweepWorkers : (PopZadd(w) /\ UNCHANGED <<hist, runner>>)
    \/ \E w \in SweepWorkers, target \in Targets : Transition(w, target)
    \/ SweepStart
    \/ SweepRead
    \/ SweepLookup
    \/ SweepRemove
    \/ SweepReturn

SpecSweep == InitSweep /\ [][NextSweep]_vars


\* ------------------------------------------------ TaskQueue: tasks as JSON payloads
\* One program uses the TaskQueue facade of task_queue.py over the key-value
\* backend: the keys in the store are the JSON texts of the tasks.  A JSON text
\* is modelled by its syntax tree, which json.dumps renders one-to-one.

Json(t, s, items) == [t |-> t, s |-> s, items |-> items]

\* json.dumps: a dict key that is an int is written as its decimal string,
\* tuples and lists are both written as arrays
RECURSIVE Dumps(_)
Dumps(v) ==
    CASE v.t = "none" -> Json("null", "", <<>>)
      [] v.t = "int" -> Json("int", v.s, <<>>)
      [] v.t = "float" -> Json("real", v.s, <<>>)
      [] v.t = "str" -> Json("string", v.s, <<>>)
      [] v.t \in {"list", "tuple"} ->
           Json("array", "", [i \in DOMAIN v.items |-> <<"", Dumps(v.items[i][2])>>])
      [] v.t = "dict" ->
           Json("object", "", [i \in DOMAIN v.items |-> <<v.items[i][1].s, Dumps(v.items[i][2])>>])

\* d[k] = v on a Python dict: a key that is present keeps its place
Put(pairs, k, v) ==
    IF \E i \in DOMAIN pairs : pairs[i][1] = k
    THEN [i \in DOMAIN pairs |-> IF pairs[i][1] = k THEN <<k, v>> ELSE pairs[i]]
    ELSE Append(pairs, <<k, v>>)

\* json.loads: every object key is a str, every array a list, and of two
\* members with the same name the later one wins
RECURSIVE Loads(_)
RECURSIVE LoadMembers(_, _)
LoadMembers(members, pairs) ==
    IF members = <<>> THEN pairs
    ELSE LoadMembers(Tail(members),
                     Put(pairs, PyStr(Head(members)[1]), Loads(Head(members)[2])))
Loads(j) ==
    CASE j.t = "null" -> PyNone
      [] j.t = "int" -> PyInt(j.s)
      [] j.t = "real" -> PyFloat(j.s)
      [] j.t = "string" -> PyStr(j.s)
      [] j.t = "array" -> PySeq("list", [i \in DOMAIN j.items |-> Loads(j.items[i][2])])
      [] j.t = "object" -> PyDict(LoadMembers(j.items, <<>>))

\* data[name] and `name in data` on a Python dict
HasItem(data, name) == data.t = "dict" /\ \E i \in DOMAIN data.items : data.items[i][1] = PyStr(name)
GetItem(data, name) ==
    data.items[CHOOSE i \in DOMAIN data.items : data.items[i][1] = PyStr(name)][2]

\* Task.to_dict
ToDict(t) ==
    PyDict(<< <<PyStr("task_id"), t.task_id>>, <<PyStr("task_type"), t.task_type>>,
              <<PyStr("params"), t.params>>, <<PyStr("created_at"), t.created_at>> >>)

\* Task.from_dict: the constructor's task_id and created_at are overwritten
FromDict(data) ==
    [task_id |-> GetItem(data, "task_id"), task_type |-> GetItem(data, "task_type"),
     params |-> GetItem(data, "params"), created_at |-> GetItem(data, "created_at")]

\* json.loads(data) and Task.from_dict both return: the text is JSON, it is an
\* object, and the four items from_dict reads are there
Parses(j) ==
    /\ j.t # "garbage"
    /\ \A name \in {"task_id", "task_type", "params", "created_at"} : HasItem(Loads(j), name)

\* json.dumps(task.to_dict()): the key of a task
TaskData(t) == Dumps(ToDict(t))

\* the dict keys and values the producer puts into params
ParamKeys == {PyInt("1"), PyStr("1"), PyStr("x")}
ParamValues ==
    {PyInt("1"), PySeq("list", <<PyInt("1")>>), PySeq("tuple", <<PyInt("1")>>),
     PyDict(<< <<PyInt("1"), PyStr("s")>>, <<PyStr("1"), PyStr("t")>> >>)}
\* params: None, or a dict of up to MaxParams items with distinct keys
Params ==
    {PyNone} \cup
    { PyDict(pairs) : pairs \in
        { p \in UNION { [1..n -> ParamKeys \X ParamValues] : n \in 0..MaxParams } :
            \A i, j \in DOMAIN p : i # j => p[i][1] # p[j][1] } }
\* the tasks a producer builds with Task(task_type, params)
NewTasks ==
    { [task_id |-> PyStr(ty \o "_1000"), task_type |-> PyStr(ty), params |-> pa,
       created_at |-> PyFloat("1000.5")] : ty \in TaskTypes, pa \in Params }
\* texts another client of the backend pushes that are not the JSON of a task
Malformed == {Json("garbage", "{oops", <<>>), Json("object", "", <<>>)}

InitTask ==
    /\ InitClients
    /\ task_handlers = [w \in Workers |-> [t \in {} |-> TRUE]]
    /\ running = [w \in Workers |-> FALSE]
    /\ key_expire = NoExpire
    /\ todo = <<>>
    /\ doing = {}
    /\ done = <<>>
    /\ error = <<>>
    /\ null = <<>>
    /\ doing_time = [k \in {} |-> NoTime]
    /\ create_time = [k \in {} |-> NoTime]
    /\ pushed = {}
    /\ hist = [returned |-> <<>>, attempts |-> 0, initial |-> 0]
    /\ \E t \in NewTasks : caller = [NoCaller EXCEPT !.pc = "new", !.task = t]

\* HSET / ZADD on an index whose members are texts
SetField(index, k, v) == [x \in DOMAIN index \cup {k} |-> IF x = k THEN v ELSE index[x]]
\* HDEL / ZREM
DelField(index, k) == [x \in DOMAIN index \ {k} |-> index[x]]

\* the orders in which a reply can list the members of S
Orderings(S) == {seq \in [1..Cardinality(S) -> S] : Range(seq) = S}

\* the Task objects of the texts that parse, in order ("except Exception: logger.warning")
RECURSIVE ParsedTasks(_)
ParsedTasks(texts) ==
    IF texts = <<>> THEN <<>>
    ELSE (IF Parses(Head(texts)) THEN <<FromDict(Loads(Head(texts)))>> ELSE <<>>)
         \o ParsedTasks(Tail(texts))

\* TaskQueue.add_task -> RedisQueue.push_key
AddTask ==
    /\ caller.pc = "new"
    /\ LET task_data == TaskData(caller.task)
       IN  /\ create_time' = SetField(create_time, task_data, now)
           /\ todo' = Lpush(todo, task_data)
           /\ pushed' = pushed \cup {task_data}
    /\ caller' = [caller EXCEPT !.pc = "added", !.calls = @ + 1, !.call = "add_task"]
    /\ UNCHANGED <<doing, done, error, null, doing_time, now, pushing, worker, scanner, pg,
                   budget, doing_since, hist, runner, cleaner, keep_alive, weights>>

\* another client of the same queue calls push_key with a text that is not a task
PushRaw(text) ==
    /\ pushed \cap Malformed = {}
    /\ create_time' = SetField(create_time, text, now)
    /\ todo' = Lpush(todo, text)
    /\ pushed' = pushed \cup {text}
    /\ UNCHANGED <<doing, done, error, null, doing_time, now, pushing, worker, scanner, pg,
                   budget, doing_since, hist, runner, cleaner, caller, keep_alive, weights>>

\* TaskQueue.get_task -> RedisQueue.pop_key, then Task.from_dict(json.loads(task_data))
GetTaskData ==
    /\ caller.pc \in {"new", "added", "marked"}
    /\ caller.calls < MaxCalls
    /\ IF todo = <<>>
       THEN /\ caller' = [caller EXCEPT !.result = NoTask, !.raised = FALSE, !.calls = @ + 1, !.call = "get_task"]
            /\ UNCHANGED store
       ELSE LET task_data == todo[Len(todo)]
            IN  /\ todo' = RpopRest(todo)
                /\ doing' = doing \cup {task_data}
                /\ doing_time' = SetField(doing_time, task_data, now)
                /\ caller' = IF Parses(task_data)
                             THEN [caller EXCEPT !.pc = "held", !.raised = FALSE, !.calls = @ + 1, !.call = "get_task",
                                                 !.result = FromDict(Loads(task_data))]
                             ELSE [caller EXCEPT !.result = NoTask, !.raised = TRUE, !.calls = @ + 1, !.call = "get_task"]
                /\ UNCHANGED <<done, error, null, create_time>>
    /\ UNCHANGED <<now, producer, worker, scanner, pg, budget, doing_since, hist, runner, cleaner, keep_alive, weights>>

\* TaskQueue.mark_done / mark_error / mark_null / requeue_task -> RedisQueue._doing_to_xxx
MarkTask(target) ==
    /\ caller.pc = "held"
    /\ LET task_data == TaskData(caller.result)
       IN  /\ doing' = doing \ {task_data}
           /\ doing_time' = DelField(doing_time, task_data)
           /\ todo' = IF target = "todo" THEN Lpush(todo, task_data) ELSE todo
           /\ done' = IF target = "done" THEN Lpush(done, task_data) ELSE done
           /\ error' = IF target = "error" THEN Lpush(error, task_data) ELSE error
           /\ null' = IF target = "null" THEN Lpush(null, task_data) ELSE null
    /\ caller' = [caller EXCEPT !.pc = "marked", !.calls = @ + 1, !.call = "mark"]
    /\ UNCHANGED <<create_time, now, producer, worker, scanner, pg, budget, doing_since, hist,
                   runner, cleaner, keep_alive, weights>>

\* TaskQueue.get_doing_tasks: a text that fails to parse is logged and skipped
GetDoingTasks ==
    /\ caller.calls < MaxCalls
    /\ \E doing_data \in Orderings(doing) :
          caller' = [caller EXCEPT !.tasks = ParsedTasks(doing_data), !.raised = FALSE,
                                   !.calls = @ + 1, !.call = "get_doing_tasks"]
    /\ UNCHANGED <<store, now, producer, worker, scanner, pg, budget, doing_since, hist,
                   runner, cleaner, keep_alive, weights>>

\* TaskQueue.get_timeout_tasks: a list comprehension over get_timeout_doing_keys
GetTimeoutTasks(t) ==
    /\ caller.calls < MaxCalls
    /\ LET cutoff == now - t * MsPerSecond
           late == {k \in DOMAIN doing_time : doing_time[k] <= cutoff}
       IN  \E timeout_data \in Orderings(late) :
              caller' = IF \A i \in DOMAIN timeout_data : Parses(timeout_data[i])
                        THEN [caller EXCEPT !.tasks = ParsedTasks(timeout_data),
                                            !.raised = FALSE, !.calls = @ + 1, !.call = "get_timeout_tasks"]
                        ELSE [caller EXCEPT !.tasks = <<>>, !.raised = TRUE, !.calls = @ + 1, !.call = "get_timeout_tasks"]
    /\ UNCHANGED <<store, now, producer, worker, scanner, pg, budget, doing_since, hist,
                   runner, cleaner, keep_alive, weights>>

NextTask ==
    \/ Tick
    \/ AddTask
    \/ \E text \in Malformed : PushRaw(text)
    \/ GetTaskData
    \/ \E target \in Targets : MarkTask(target)
    \/ GetDoingTasks
    \/ \E t \in 0..MaxTimeout : GetTimeoutTasks(t)

SpecTask == InitTask /\ [][NextTask]_vars

\* ------------------------------------------------ the two backends, call by call
\* One program makes the same sequence of push_key, pop_key and doing_to_*
\* calls on a RedisQueue and on a PostgreSQLQueue.  Each call is one step.

\* what a call returned: a key, None, a bool, or an exception
Returned(kind, k, ok) == [kind |-> kind, key |-> k, ok |-> ok]
NoCall == Returned("none", NoKey, FALSE)

InitBoth ==
    /\ InitStore
    /\ InitClients
    /\ InitRunner
    /\ pushed = {}
    /\ hist = [call |-> "none", moved |-> NoKey, pushes |-> [k \in Keys |-> 0],
               redis |-> NoCall, pg |-> NoCall]

\* push_key(k) on both (redis.py:111-118, postgre.py:104-111)
BothPush(k) ==
    /\ Len(tasks) < MaxEntries
    /\ Entries < MaxEntries
    /\ create_time' = [create_time EXCEPT ![k] = now]
    /\ todo' = Lpush(todo, k)
    /\ tasks' = Append(tasks, Row(k))
    /\ pushed' = pushed \cup {k}
    /\ hist' = [hist EXCEPT !.call = "push_key", !.moved = NoKey, !.pushes[k] = @ + 1,
                            !.redis = NoCall, !.pg = NoCall]
    /\ UNCHANGED <<doing, done, error, null, doing_time, now, pushing, worker, scanner,
                   task_id, budget, doing_since, runner, cleaner, caller, keep_alive, weights>>

\* pop_key() on both (redis.py:120-127, postgre.py:113-131)
BothPop ==
    /\ LET k == RpopValue(todo)
       IN  /\ todo' = RpopRest(todo)
           /\ doing' = IF k = NoKey THEN doing ELSE doing \cup {k}
           /\ doing_time' = IF k = NoKey THEN doing_time ELSE [doing_time EXCEPT ![k] = now]
           /\ doing_since' = IF k = NoKey \/ k \in doing THEN doing_since
                             ELSE [doing_since EXCEPT ![k] = now]
           /\ IF OldestTodo = {}
              THEN /\ tasks' = tasks
                   /\ hist' = [hist EXCEPT !.call = "pop_key", !.moved = NoKey,
                                           !.redis = Returned("key", k, k # NoKey),
                                           !.pg = Returned("key", NoKey, FALSE)]
              ELSE \E i \in OldestTodo :
                   /\ tasks' = [tasks EXCEPT ![i].status = "doing", ![i].start_time = now]
                   /\ hist' = [hist EXCEPT !.call = "pop_key", !.moved = NoKey,
                                           !.redis = Returned("key", k, k # NoKey),
                                           !.pg = Returned("key", tasks[i].key, TRUE)]
    /\ UNCHANGED <<done, error, null, create_time, now, producer, worker, scanner,
                   task_id, budget, runner, cleaner, caller, keep_alive, weights>>

\* PostgreSQLQueue._change_status (postgre.py:145-154): the values bound to
\* start_time are the Python strings "CURRENT_TIMESTAMP" and "NULL", which the
\* server is asked to read as a TIMESTAMP; the statement is rejected, execute
\* raises and no row changes
PgChangeStatus(k, new_status) ==
    /\ tasks' = tasks
    /\ hist' = [hist EXCEPT !.call = "doing_to_" \o new_status, !.moved = k,
                            !.redis = Returned("bool", NoKey, Success(k)),
                            !.pg = Returned("raised", NoKey, FALSE)]

\* doing_to_done / doing_to_error / doing_to_null / doing_to_todo (k) on both
BothTransition(k, target) ==
    /\ Room(k)
    /\ DoingToXxx(k, target)
    /\ PgChangeStatus(k, target)
    /\ UNCHANGED <<now, producer, worker, scanner, task_id, budget, runner, cleaner, caller, keep_alive, weights>>

NextBoth ==
    \/ Tick
    \/ \E k \in Keys : BothPush(k)
    \/ BothPop
    \/ \E k \in Keys, target \in Targets : BothTransition(k, target)

SpecBoth == InitBoth /\ [][NextBoth]_vars

\* ------------------------------------------------ one producer, one consumer
\* The producer pushes the keys 1, 2, ... one after the other; one consumer
\* claims and transitions them.

\* the one consumer
Consumer == CHOOSE w \in Workers : TRUE

NextFifo ==
    \/ Tick
    \/ \E k \in Keys : PushHset(k)
    \/ PushLpush
    \/ ClaimAttempt(Consumer)
    \/ PopSadd(Consumer)
    \/ ClaimReturn(Consumer)
    \/ \E target \in Targets : Transition(Consumer, target)

SpecFifo == Init /\ [][NextFifo]_vars

\* ------------------------------------------------ one worker, one task type, no faults
\* K tasks of one type wait in the queue; one worker is registered for that
\* type only; its handler and callbacks return, nothing interrupts it and the
\* backend answers every call.

InitLive ==
    /\ InitClients
    /\ \E t \in TaskTypes, rc \in BOOLEAN, ka \in BOOLEAN :
          /\ task_handlers = [w \in Workers |-> [type \in {t} |-> HandlerInfo(rc, ka)]]
          /\ \E S \in SUBSET {k \in Keys : TaskType(k) = t} :
                /\ todo = [i \in 1..Cardinality(S) |-> Smembers(S)[Cardinality(S) + 1 - i]]
                /\ pushed = S
                /\ create_time = [k \in Keys |-> IF k \in S THEN StartMs ELSE NoTime]
                /\ hist = [returned |-> <<>>, attempts |-> 0, initial |-> Cardinality(S)]
    /\ doing = {}
    /\ done = <<>>
    /\ error = <<>>
    /\ null = <<>>
    /\ doing_time = [k \in Keys |-> NoTime]
    /\ running = [w \in Workers |-> w = Consumer]
    /\ key_expire = NoExpire
    /\ caller = NoCaller

\* the steps of the worker's thread
WorkerLoop ==
    \/ GetTask(Consumer)
    \/ PopSadd(Consumer)
    \/ GetTaskReturn(Consumer)
    \/ HandlerStart(Consumer)
    \/ KeepAliveRaises(Consumer)
    \/ HandlerReturns(Consumer)
    \/ CallbackReturns(Consumer)
    \/ MarkDone(Consumer)
    \/ ClearTask(Consumer)

NextLive ==
    \/ Tick
    \/ WorkerLoop

\* the worker's thread keeps being scheduled
SpecLive == InitLive /\ [][NextLive]_vars /\ WF_vars(WorkerLoop)

\* ------------------------------------------------ BaseQueue._cleanup_loop
\* The cleanup thread of one RedisQueue (base.py:22-52): it sweeps, sleeps
\* cleanup_interval and sweeps again while self.running, beside one worker
\* that claims keys.  A Redis command of the sweep may raise.

\* base.py:22-36  start_cleanup_thread, the last step of the constructor
\* (redis.py:55-56): running = True and the thread is started.  The sweep the
\* constructing thread then runs itself finds every entry created at this
\* very instant (now - create_time = 0) and removes nothing.
StartCleanupThread ==
    /\ sweep.loop = "none"
    /\ key_expire # NoExpire
    /\ sweep' = [sweep EXCEPT !.running = TRUE, !.loop = "while"]
    /\ UNCHANGED <<store, now, producer, worker, scanner, pg, budget, doing_since, hist,
                   runner, key_expire, caller, keep_alive, weights>>

\* base.py:38-43  stop_cleanup_thread: running = False
StopCleanupThread ==
    /\ sweep.running
    /\ sweep' = [sweep EXCEPT !.running = FALSE]
    /\ UNCHANGED <<store, now, producer, worker, scanner, pg, budget, doing_since, hist,
                   runner, key_expire, caller, keep_alive, weights>>

\* base.py:47-49  `while self.running:` is tested; the thread calls
\* cleanup_expired_keys, or leaves the loop and ends
LoopTest ==
    /\ sweep.loop = "while"
    /\ sweep' = IF sweep.running
                THEN [SweepEntry EXCEPT !.loop = "sweep", !.raised = FALSE]
                ELSE [sweep EXCEPT !.loop = "exited"]
    /\ UNCHANGED <<store, now, producer, worker, scanner, pg, budget, doing_since, hist,
                   runner, key_expire, caller, keep_alive, weights>>

\* an except clause of the loop that catches nothing
LoopCatchesNothing(exc) == FALSE

\* base.py:50  `except Exception as e` of _cleanup_loop: what it catches
LoopCatches(exc) == exc = "Exception"

\* a Redis command of the running sweep raises (the connection is lost):
\* base.py:50-51 logs it and the thread goes on to sleep; an exception that
\* is not caught ends the thread
SweepRaises ==
    /\ sweep.loop = "sweep"
    /\ faults < MaxFaults
    /\ faults' = faults + 1
    /\ sweep.pc \in {"read", "lookup", "remove"}
    /\ sweep' = [sweep EXCEPT !.pc = "idle", !.status = 0, !.keys = <<>>, !.expired = <<>>,
                              !.raised = TRUE,
                              !.loop = IF LoopCatches("Exception") THEN "sleep" ELSE "exited"]
    /\ UNCHANGED <<store, now, producer, worker, scanner, pg, budget, doing_since, hist,
                   task, running, task_handlers, doing_tasks, trace, key_expire, caller, keep_alive, weights>>

\* base.py:49, 52  cleanup_expired_keys has returned: time.sleep(cleanup_interval)
LoopSleep ==
    /\ sweep.loop = "sweep"
    /\ sweep.pc = "idle"
    /\ sweep' = [sweep EXCEPT !.loop = "sleep"]
    /\ UNCHANGED <<store, now, producer, worker, scanner, pg, budget, doing_since, hist,
                   runner, key_expire, caller, keep_alive, weights>>

\* base.py:52  time.sleep returns after cleanup_interval: back to the test
LoopWake ==
    /\ sweep.loop = "sleep"
    /\ sweep' = [sweep EXCEPT !.loop = "while"]
    /\ UNCHANGED <<store, now, producer, worker, scanner, pg, budget, doing_since, hist,
                   runner, key_expire, caller, keep_alive, weights>>

\* the steps of the cleanup thread
CleanupLoop ==
    \/ LoopTest
    \/ (sweep.loop = "sweep" /\ SweepRead)
    \/ (sweep.loop = "sweep" /\ SweepLookup)
    \/ (sweep.loop = "sweep" /\ SweepRemove)
    \/ (sweep.loop = "sweep" /\ SweepReturn)
    \/ SweepRaises
    \/ LoopSleep
    \/ LoopWake

NextLoop ==
    \/ StartCleanupThread
    \/ StopCleanupThread
    \/ (sweep.loop # "none" /\ Tick)
    \/ (sweep.loop # "none" /\ Claim(Consumer))
    \/ (sweep.loop # "none" /\ PopSadd(Consumer))
    \/ (sweep.loop # "none" /\ PopZadd(Consumer) /\ UNCHANGED <<hist, runner>>)
    \/ CleanupLoop

\* the cleanup thread keeps being scheduled
SpecLoop == InitSweep /\ [][NextLoop]_vars /\ WF_vars(CleanupLoop)

\* ------------------------------------------------ Worker._keep_task_alive
\* _process_task of worker.py with its keep-alive thread in detail
\* (worker.py:130-188): the thread is started before the handler, the stop
\* event is set and the thread joined in the finally block.  The keep-alive
\* callback is user code: it may return, raise, or never return.

\* worker.py:137-144  the stop event is created and the thread started
ThreadStart(w) ==
    /\ wpc[w] = "hold"
    /\ TaskType(task[w]) \in DOMAIN task_handlers[w]
    /\ task_handlers[w][TaskType(task[w])].keep_alive_callback
    /\ keep_alive[w].stop_event # "clear"
    /\ keep_alive' = [keep_alive EXCEPT ![w] =
                         [thread |-> "wait", stop_event |-> "clear", joined |-> FALSE]]
    /\ UNCHANGED <<store, now, producer, worker, scanner, pg, budget, doing_since, hist,
                   runner, cleaner, caller, weights>>

\* worker.py:137, 146  the handler is called once the thread, if any, runs
ThreadReady(w) ==
    \/ ~task_handlers[w][TaskType(task[w])].keep_alive_callback
    \/ keep_alive[w].stop_event = "clear"

\* worker.py:179-184  stop_event.wait(interval) times out with the event not
\* set: callback(task) is called
BeatFire(w) ==
    /\ keep_alive[w].thread = "wait"
    /\ keep_alive[w].stop_event = "clear"
    /\ keep_alive' = [keep_alive EXCEPT ![w].thread = "callback"]
    /\ UNCHANGED <<store, now, producer, worker, scanner, pg, budget, doing_since, hist,
                   runner, cleaner, caller, weights>>

\* worker.py:183-186  the callback returns, or raises and the error is logged
BeatReturns(w) ==
    /\ keep_alive[w].thread = "callback"
    /\ keep_alive' = [keep_alive EXCEPT ![w].thread = "wait"]
    /\ UNCHANGED <<store, now, producer, worker, scanner, pg, budget, doing_since, hist,
                   runner, cleaner, caller, weights>>

\* worker.py:179-182  the event is set: the thread leaves its loop and ends
BeatEnds(w) ==
    /\ keep_alive[w].thread = "wait"
    /\ keep_alive[w].stop_event = "set"
    /\ keep_alive' = [keep_alive EXCEPT ![w].thread = "ended"]
    /\ UNCHANGED <<store, now, producer, worker, scanner, pg, budget, doing_since, hist,
                   runner, cleaner, caller, weights>>

\* worker.py:162-164  finally: keep_alive_stop_event.set()
BeatStop(w) ==
    /\ wpc[w] = "processed"
    /\ keep_alive[w].stop_event = "clear"
    /\ keep_alive' = [keep_alive EXCEPT ![w].stop_event = "set"]
    /\ UNCHANGED <<store, now, producer, worker, scanner, pg, budget, doing_since, hist,
                   runner, cleaner, caller, weights>>

\* worker.py:166  keep_alive_thread.join(timeout=keep_alive_interval) returns
\* when the thread has ended or the timeout has passed
Joined(thread, timed_out) == thread = "ended" \/ timed_out

\* worker.py:165-166  finally: the thread is joined
BeatJoin(w) ==
    /\ wpc[w] = "processed"
    /\ keep_alive[w].stop_event = "set"
    /\ ~keep_alive[w].joined
    /\ \E timed_out \in BOOLEAN : Joined(keep_alive[w].thread, timed_out)
    /\ keep_alive' = [keep_alive EXCEPT ![w].joined = TRUE]
    /\ UNCHANGED <<store, now, producer, worker, scanner, pg, budget, doing_since, hist,
                   runner, cleaner, caller, weights>>

\* worker.py:162-166  the finally block of _process_task is over
FinallyOver(w) == keep_alive[w].stop_event = "none" \/ keep_alive[w].joined

\* the steps of the worker's main thread
BeatMain ==
    \/ GetTask(Consumer)
    \/ PopSadd(Consumer)
    \/ GetTaskReturn(Consumer)
    \/ ThreadStart(Consumer)
    \/ (HandlerStart(Consumer) /\ ThreadReady(Consumer))
    \/ HandlerReturns(Consumer)
    \/ HandlerRaises(Consumer)
    \/ CallbackReturns(Consumer)
    \/ CallbackRaises(Consumer)
    \/ MarkDone(Consumer)
    \/ MarkError(Consumer)
    \/ BeatStop(Consumer)
    \/ BeatJoin(Consumer)
    \/ (ClearTask(Consumer) /\ FinallyOver(Consumer))

NextBeat ==
    \/ Tick
    \/ BeatMain
    \/ BeatFire(Consumer)
    \/ BeatReturns(Consumer)
    \/ BeatEnds(Consumer)

\* the main thread keeps being scheduled; the keep-alive callback is not
\* required to return
SpecBeat == InitLive /\ [][NextBeat]_vars /\ WF_vars(BeatMain)

\* ------------------------------------------------ Worker.register_task
\* One Worker of worker.py is given handlers by a sequence of register_task
\* calls.  In this specification task_handlers[w] is the dict with its key
\* order: a sequence of <<task_type, entry>> pairs.

\* a type that was never registered
NoEntry == [handler |-> "none", weight |-> 0,
            result_callback |-> FALSE, keep_alive_callback |-> FALSE]

\* the handler functions a program may register
Handlers == {"f", "g"}

InitRegister ==
    /\ InitStore
    /\ InitClients
    /\ InitRunner
    /\ pushed = {}
    /\ hist = [latest |-> [t \in TaskTypes |-> NoEntry], again |-> [t \in TaskTypes |-> FALSE]]

\* a registration that keeps the entry a type already has
SetHandlerKeepsFirst(handlers, task_type, entry) ==
    IF \E i \in DOMAIN handlers : handlers[i][1] = task_type
    THEN handlers
    ELSE Append(handlers, <<task_type, entry>>)

\* worker.py:41-48  self.task_handlers[task_type] = {...}
SetHandler(handlers, task_type, entry) == Put(handlers, task_type, entry)

\* worker.py:68  task_types = list(self.task_handlers.keys())
TaskTypesOf(handlers) == [i \in DOMAIN handlers |-> handlers[i][1]]

\* worker.py:51  [self.task_handlers[task_type]["weight"] for task_type in self.task_handlers.keys()]
WeightsOf(handlers) ==
    LET task_types == TaskTypesOf(handlers)
    IN  [i \in DOMAIN task_types |->
            handlers[CHOOSE j \in DOMAIN handlers : handlers[j][1] = task_types[i]][2].weight]

\* worker.py:21-53  register_task(task_type, handler, weight, result_callback,
\* keep_alive_callback)
RegisterTask(w, task_type, handler, weight, result_callback, keep_alive_callback) ==
    LET entry == [handler |-> handler, weight |-> weight,
                  result_callback |-> result_callback,
                  keep_alive_callback |-> keep_alive_callback]
        handlers == SetHandler(task_handlers[w], task_type, entry)
    IN  /\ task_handlers' = [task_handlers EXCEPT ![w] = handlers]
        /\ weights' = [weights EXCEPT ![w] = WeightsOf(handlers)]
        /\ hist' = [hist EXCEPT !.latest[task_type] = entry,
                                !.again[task_type] = hist.latest[task_type] # NoEntry]
        /\ UNCHANGED <<store, now, producer, worker, scanner, pg, budget, doing_since,
                       task, running, faults, doing_tasks, trace, cleaner, caller,
                       keep_alive>>

NextRegister ==
    \E task_type \in TaskTypes, handler \in Handlers, weight \in 1..MaxWeight,
       result_callback \in BOOLEAN, keep_alive_callback \in BOOLEAN :
        RegisterTask(Consumer, task_type, handler, weight, result_callback,
                     keep_alive_callback)

SpecRegister == InitRegister /\ [][NextRegister]_vars

\* ------------------------------------------------ a recovered lease
\* Workers and lease-timeout scanners on a queue nobody pushes to any more:
\* a key is in todo again only after move_timeout_to_todo has recovered it or
\* its holder has requeued it.

\* no worker has written a lease for the key
NoWorker == 0

InitStale ==
    /\ InitClients
    /\ InitRunner
    /\ \E K \in 1..NumKeys :
        /\ todo = [i \in 1..K |-> K + 1 - i]
        /\ pushed = 1..K
        /\ create_time = [k \in Keys |-> IF k <= K THEN StartMs ELSE NoTime]
    /\ hist = [lease |-> [k \in Keys |-> NoWorker]]
    /\ doing = {}
    /\ done = <<>>
    /\ error = <<>>
    /\ null = <<>>
    /\ doing_time = [k \in Keys |-> NoTime]

\* pop_key returns (redis.py:125-127): the lease on the key is now the one
\* this worker wrote
LeaseWritten(w) ==
    /\ PopZadd(w)
    /\ hist' = [hist EXCEPT !.lease[key[w]] = w]
    /\ UNCHANGED runner

NextStale ==
    \/ Tick
    \/ \E w \in Workers : Claim(w)
    \/ \E w \in Workers : PopSadd(w)
    \/ \E w \in Workers : LeaseWritten(w)
    \/ \E w \in Workers, target \in Targets : Transition(w, target)
    \/ \E s \in Scanners, t \in 0..MaxTimeout : Scan(s, t)
    \/ \E s \in Scanners : ScanMove(s)
    \/ \E s \in Scanners : (ScanReturn(s) /\ UNCHANGED wpc)

SpecStale == InitStale /\ [][NextStale]_vars

\* ------------------------------------------------ RedisQueue.reset
\* A producer, one worker and a program that resets the queue with some
\* combination of status flags (TaskQueue.clear_all_queues,
\* task_queue.py:560-571).

\* redis.py:61-74  reset(todo, doing, done, error, null): the containers whose
\* flag is set are deleted, and the create_time hash is deleted in every case;
\* Flags is the set of statuses whose flag is True.  The DEL commands are run
\* with no other command in between.
Reset(Flags) ==
    /\ todo' = IF "todo" \in Flags THEN <<>> ELSE todo
    /\ doing' = IF "doing" \in Flags THEN {} ELSE doing
    /\ doing_time' = IF "doing" \in Flags THEN [k \in Keys |-> NoTime] ELSE doing_time
    /\ doing_since' = IF "doing" \in Flags THEN [k \in Keys |-> NoTime] ELSE doing_since
    /\ done' = IF "done" \in Flags THEN <<>> ELSE done
    /\ error' = IF "error" \in Flags THEN <<>> ELSE error
    /\ null' = IF "null" \in Flags THEN <<>> ELSE null
    /\ create_time' = [k \in Keys |-> NoTime]
    /\ UNCHANGED <<now, producer, worker, scanner, pg, budget, hist, runner, cleaner,
                   caller, keep_alive, weights>>

NextReset ==
    \/ Tick
    \/ \E k \in Keys : PushHset(k)
    \/ PushLpush
    \/ Claim(Consumer)
    \/ PopSadd(Consumer)
    \/ (PopZadd(Consumer) /\ UNCHANGED <<hist, runner>>)
    \/ \E target \in Targets : Transition(Consumer, target)
    \/ \E Flags \in SUBSET {"todo", "doing", "done", "error", "null"} : Reset(Flags)

SpecReset == Init /\ [][NextReset]_vars

\* ------------------------------------------------ Worker.stop
\* One Worker of worker.py runs and Worker.stop() is called from another
\* thread while run is executing (worker.py:119-120).

\* worker.py:119-120  stop(): self.running = False
Stop(w) ==
    /\ running[w]
    /\ wpc[w] \in InTry
    /\ running' = [running EXCEPT ![w] = FALSE]
    /\ UNCHANGED <<store, now, producer, worker, scanner, pg, budget, doing_since, hist,
                   task, task_handlers, faults, doing_tasks, trace, cleaner, caller,
                   keep_alive, weights>>

\* worker.py:65, 98  `while self.running` is false: the loop ends and the
\* finally block is entered
LoopEnds(w) ==
    /\ wpc[w] = "idle"
    /\ ~running[w]
    /\ wpc' = [wpc EXCEPT ![w] = "finally"]
    /\ UNCHANGED <<store, now, producer, key, timestamp, scanner, pg, budget, doing_since,
                   hist, runner, cleaner, caller, keep_alive, weights>>

\* the steps of the worker's thread
StopLoop ==
    \/ IdleHeartbeatRaises(Consumer)
    \/ GetTask(Consumer)
    \/ PopSadd(Consumer)
    \/ GetTaskReturn(Consumer)
    \/ NoHandler(Consumer)
    \/ HandlerStart(Consumer)
    \/ HandlerReturns(Consumer)
    \/ HandlerRaises(Consumer)
    \/ CallbackReturns(Consumer)
    \/ CallbackRaises(Consumer)
    \/ MarkDone(Consumer)
    \/ MarkError(Consumer)
    \/ ClearTask(Consumer)
    \/ LoopEnds(Consumer)
    \/ RunReturns(Consumer)
    \/ FinalHeartbeatRaises(Consumer)

NextStop ==
    \/ Tick
    \/ Stop(Consumer)
    \/ KeepAliveRaises(Consumer)
    \/ StopLoop

\* the worker's thread keeps being scheduled
SpecStop == InitWorker /\ [][NextStop]_vars /\ WF_vars(StopLoop)

\* ------------------------------------------------------------ claims
\* number of entries with key k over the five statuses
Copies(k) ==
    Count(todo, k) + (IF k \in doing THEN 1 ELSE 0) + Count(done, k)
        + Count(error, k) + Count(null, k)

InTodo(k) == Count(todo, k) > 0
InTerminal(k) == Count(done, k) + Count(error, k) + Count(null, k) > 0

\* a worker's doing_to_* call, and a scanner's doing_to_todo call, on key k
WorkerTransitions(w, k) == wpc[w] = "hold" /\ wpc'[w] = "idle" /\ key[w] = k
ScannerTransitions(s, k) ==
    /\ spc[s] = "loop"
    /\ timeout_keys[s] # <<>>
    /\ timeout_keys'[s] = Tail(timeout_keys[s])
    /\ Head(timeout_keys[s]) = k

Min(a, b) == IF a <= b THEN a ELSE b
NoDuplicates(seq) == \A i, j \in 1..Len(seq) : i # j => seq[i] # seq[j]

\* C1: of the claimers racing for the K distinct keys of a queue, no two are
\* returned the same key, and once A attempts are over exactly min(K, A) of
\* them have returned a key.
C1_ExclusiveClaim ==
    /\ NoDuplicates(hist.returned)
    /\ (\A w \in Workers : wpc[w] \in {"idle", "hold"}) =>
          Len(hist.returned) = Min(hist.initial, hist.attempts)

\* C1 happens: two keys, three attempts over, two of them returned a key
C1_Witness ==
    /\ hist.initial = 2
    /\ hist.attempts = 3
    /\ Len(hist.returned) = 2
    /\ \A w \in Workers : wpc[w] \in {"idle", "hold"}

\* C2: in the relational backend no todo row is handed to two claimers.
C2_RowClaimedOnce == \A i, j \in 1..Len(hist.returned) :
    i # j => hist.returned[i] # hist.returned[j]

\* C3: every entry pushed with a distinct key is in at most one of todo,
\* doing, done, error, null, and appears there at most once.
C3_AtMostOneStatus == \A k \in Keys : Copies(k) <= 1

\* C4: a doing_to_* call with a key that is not in doing leaves todo, doing,
\* done, error, null and the lease index as they were, and is reported as
\* False to the caller (a scanner does not count it).
C4_NotInDoingIsNoOp ==
    [][\A k \in Keys : k \notin doing =>
          /\ \A w \in Workers : WorkerTransitions(w, k) =>
                UNCHANGED <<todo, doing, done, error, null, doing_time>>
          /\ \A s \in Scanners : ScannerTransitions(s, k) =>
                /\ UNCHANGED <<todo, doing, done, error, null, doing_time>>
                /\ moved_count'[s] = moved_count[s]]_vars

\* a claimer that is still running is inside pop_key with key k
BeingClaimed(k) ==
    \E w \in Workers : wpc[w] \in {"pop_sadd", "pop_zadd"} /\ key[w] = k

\* C5: no pushed task is lost, even if a worker stops inside pop_key: a task
\* whose push_key has returned is in one of the five statuses, or on its way
\* into doing in the hands of a claimer that is still running.
C5_NoPushedTaskLost ==
    \A k \in pushed : k # pushing => (Copies(k) > 0 \/ BeingClaimed(k))

\* C6: an entry enters doing only from todo and enters todo, done, error or
\* null only from doing (or, for todo, by push_key); an entry that is in done,
\* error or null stays there and never becomes claimable or in flight again.
C6_OnlyLegalTransitions ==
    [][\A k \in Keys :
          /\ Count(todo', k) > Count(todo, k) => (k \in doing \/ pushing = k)
          /\ Count(done', k) > Count(done, k) => k \in doing
          /\ Count(error', k) > Count(error, k) => k \in doing
          /\ Count(null', k) > Count(null, k) => k \in doing
          /\ InTerminal(k) =>
                /\ Count(done', k) = Count(done, k)
                /\ Count(error', k) = Count(error, k)
                /\ Count(null', k) = Count(null, k)
                /\ Count(todo', k) <= Count(todo, k)
                /\ (k \in doing' => k \in doing)]_vars

\* C7: no client can observe a half-applied claim or transition: a key taken
\* by a claimer is in todo or doing, and a key in doing has its lease.
C7_ClaimAndTransitionAtomic ==
    /\ \A w \in Workers : wpc[w] \in {"pop_sadd", "pop_zadd"} =>
          (InTodo(key[w]) \/ key[w] \in doing)
    /\ \A k \in doing : doing_time[k] # NoTime

\* C8: whenever no client is inside a backend operation, a key has a lease
\* timestamp if and only if it is in doing.
BetweenOperations ==
    /\ pushing = NoKey
    /\ \A w \in Workers : wpc[w] \in {"idle", "hold"}
C8_LeaseIffDoing ==
    BetweenOperations => \A k \in Keys : (doing_time[k] # NoTime <=> k \in doing)

\* C9: a key that pop_key put in doing longer than timeout_seconds ago, and
\* that no running claimer is still busy with, is picked up by
\* move_timeout_to_todo(timeout_seconds), which removes it from doing and from
\* the lease index, inserts it into todo and counts it.
Overdue(k, t) ==
    /\ k \in doing
    /\ ~BeingClaimed(k)
    /\ doing_since[k] # NoTime
    /\ now - doing_since[k] > t * MsPerSecond
C9_OverdueKeyRequeued ==
    [][\A s \in Scanners :
          /\ (spc[s] = "idle" /\ spc'[s] = "loop") =>
                \A k \in Keys : Overdue(k, timeout_seconds'[s]) =>
                    k \in Range(timeout_keys'[s])
          /\ \A k \in doing : ScannerTransitions(s, k) =>
                /\ k \notin doing'
                /\ doing_time'[k] = NoTime
                /\ Count(todo', k) = Count(todo, k) + 1
                /\ moved_count'[s] = moved_count[s] + 1]_vars

\* C10: whatever races with a scanner, every entry its move_timeout_to_todo
\* inserts into todo is an entry it removed from doing, and is counted once.
C10_ScannerInsertsWhatItMoved ==
    [][\A s \in Scanners, k \in Keys : ScannerTransitions(s, k) =>
          /\ Count(todo', k) - Count(todo, k) = (IF k \in doing THEN 1 ELSE 0)
          /\ moved_count'[s] - moved_count[s] = Count(todo', k) - Count(todo, k)]_vars

\* C11: a KeyboardInterrupt that arrives while the handler runs makes run
\* requeue the held task: after the requeue the task is in todo and in no
\* other status, and the number of entries is what it was.
C11_InterruptedTaskRequeued ==
    [][\A w \in Workers :
          (wpc[w] = "except_ki" /\ wpc'[w] = "finally" /\ trace[w].at = "handler") =>
              /\ Count(todo', task[w]) > 0
              /\ task[w] \notin doing'
              /\ Count(done', task[w]) + Count(error', task[w]) + Count(null', task[w]) = 0
              /\ Len(todo') + Cardinality(doing') + Len(done') + Len(error') + Len(null')
                    = Entries]_vars

\* C12: wherever the KeyboardInterrupt arrives, once the interrupt handler of
\* run is over the task the worker claimed is in exactly one status, and that
\* status is not doing.
C12_NoPartialCancellation ==
    [][\A w \in Workers :
          (wpc[w] = "except_ki" /\ wpc'[w] = "finally" /\ key[w] # NoKey) =>
              /\ key[w] \notin doing'
              /\ Count(todo', key[w]) + Count(done', key[w]) + Count(error', key[w])
                    + Count(null', key[w]) = 1]_vars

\* C13: once every legacy worker has handled its KeyboardInterrupt, doing is
\* empty and every task that was pushed and not completed is in todo.
C13_InterruptLeavesNothingInDoing ==
    (/\ \E w \in Workers : wpc[w] = "stopped"
     /\ \A w \in Workers : wpc[w] = "stopped" \/ ~running[w]) =>
        /\ doing = {}
        /\ \A k \in pushed : ~InTerminal(k) => InTodo(k)

\* C14: once the handler has raised and mark_error has been issued, the task
\* is in error, not in doing, and not in todo where pop_key could return it.
C14_FailedTaskIsInError ==
    \A w \in Workers :
        (trace[w].handler = "raised" /\ (wpc[w] = "processed" \/ trace[w].at = "processed")) =>
            /\ Count(error, task[w]) > 0
            /\ task[w] \notin doing
            /\ ~InTodo(task[w])

\* C15: after a task whose type has no registered handler has been processed,
\* the task is in null and not in doing.
C15_UnroutableTaskIsInNull ==
    \A w \in Workers :
        (wpc[w] = "processed" /\ TaskType(task[w]) \notin DOMAIN task_handlers[w]) =>
            /\ Count(null, task[w]) > 0
            /\ task[w] \notin doing

C17_DoneOnlyAfterCallback ==
    [][/\ \A k \in Keys : Count(done', k) > Count(done, k) =>
             \E w \in Workers :
                /\ wpc[w] = "mark_done" /\ task[w] = k
                /\ trace[w].handler = "returned"
                /\ task_handlers[w][TaskType(k)].result_callback =>
                      trace[w].callback = "returned"
       /\ \A w \in Workers : trace[w].callback = "raised" =>
             /\ wpc[w] # "mark_done"
             /\ wpc'[w] = "processed" => Count(error', task[w]) > 0]_vars

\* C17 happens: a result callback is registered, it returned, and the task is
\* in done
C17_Witness ==
    \E w \in Workers :
        /\ wpc[w] = "processed"
        /\ trace[w].callback = "returned"
        /\ Count(done, task[w]) > 0

\* C18: a worker that a backend exception takes out of the loop while it holds
\* a task has attempted requeue_task on that task when run ends.
C18_HeldTaskRequeuedOnBackendError ==
    \A w \in Workers :
        (wpc[w] = "stopped" /\ trace[w].exit = "Exception" /\ task[w] # NoKey) =>
            trace[w].requeued

\* C19: an exception of a keep-alive callback neither ends the loop nor leaves
\* run, whether raised by the idle heartbeat, the per-task heartbeat or the
\* final heartbeat.
C19_HeartbeatErrorsAreNotFatal ==
    \A w \in Workers :
        /\ ~(trace[w].beat = "idle" /\ trace[w].exit = "Exception")
        /\ trace[w].out # "raised"

\* no client has acted since the running sweep began, and none is inside an operation
SweepUndisturbed ==
    /\ sweep.before = <<wpc, claims>>
    /\ \A w \in Workers : wpc[w] \in {"idle", "hold"}

\* the sweep has worked through every status and is about to return total_removed
SweepComplete == sweep.pc = "read" /\ sweep.status > Len(Phases)

\* C20: when a cleanup_expired_keys pass that no client disturbed completes, no
\* status with a TTL still holds an entry whose age exceeded that TTL when the
\* pass began, and a pass repeated immediately after another returns 0.
C20_SweepRemovesEveryExpiredEntry ==
    (SweepComplete /\ SweepUndisturbed) =>
        /\ \A S \in DOMAIN key_expire : \A k \in sweep.expired[S] :
               IF S = "doing" THEN k \notin doing ELSE Count(StatusKeys(S), k) = 0
        /\ sweep.again => sweep.total_removed = 0

\* the key the sweep is about to delete is no longer in the status being swept
SweptKeyHasLeft ==
    /\ sweep.pc = "remove"
    /\ IF Phases[sweep.status] = "doing"
       THEN Head(sweep.keys) \notin doing
       ELSE Count(StatusKeys(Phases[sweep.status]), Head(sweep.keys)) = 0

\* C21: when the key has left the swept status between the sweep's read and
\* its removal step, the removal step deletes nothing, keeps the key's
\* creation-time and lease records, and does not count the key.
C21_SweepSparesDepartedEntry ==
    [][(SweptKeyHasLeft /\ sweep'.pc # "remove") =>
          /\ UNCHANGED store
          /\ sweep'.total_removed = sweep.total_removed]_vars

\* the number of entries key k has in status S
EntriesIn(S, k) ==
    IF S = "doing" THEN (IF k \in doing THEN 1 ELSE 0) ELSE Count(StatusKeys(S), k)

\* key k in status S is past the TTL of S: by its lease for doing, by its creation time otherwise
PastTtl(S, k) ==
    /\ S \in DOMAIN key_expire
    /\ IF S = "doing"
       THEN doing_time[k] # NoTime /\ now - doing_time[k] > ExpireMs(S)
       ELSE create_time[k] # NoTime /\ now - create_time[k] > ExpireMs(S)

\* C22: every entry the sweep deletes is, when it is deleted, in a status with
\* a TTL, older than that TTL, and (outside doing) has a creation-time record.
C22_SweepDeletesOnlyExpired ==
    [][(sweep.pc = "remove" /\ sweep'.pc # "remove") =>
          \A k \in Keys : \A i \in 1..Len(Phases) :
              EntriesIn(Phases[i], k)' < EntriesIn(Phases[i], k) => PastTtl(Phases[i], k)]_vars

\* C23: on a queue that holds nothing but the task add_task stored, the Task
\* that get_task returns has the task_id, task_type, params and created_at of
\* the enqueued one, and its own json text is the key that pop_key put in doing.
C23_TaskRoundTrip ==
    (caller.pc = "held" /\ pushed = {TaskData(caller.task)}) =>
        /\ caller.result = caller.task
        /\ doing = {TaskData(caller.result)}

\* C30: a bulk read of the facade (get_doing_tasks, get_timeout_tasks) never
\* raises because of a stored text that does not parse into a Task, and it
\* returns the tasks of the texts that do parse.
C30_BulkReadsSkipMalformed ==
    caller.call \in {"get_doing_tasks", "get_timeout_tasks"} => ~caller.raised

\* a step in which the program calls pop_key on both backends
PopStep == hist'.call = "pop_key" /\ now' = now

\* number of rows of table tasks with key k and status S
PgCountIn(rows, S, k) ==
    Cardinality({i \in 1..Len(rows) : rows[i].key = k /\ rows[i].status = S})
PgCount(S, k) == PgCountIn(tasks, S, k)

\* C24: pop_key returns a key exactly when todo is not empty at the call, the
\* key comes from todo, and on an empty todo it returns None and changes no
\* status container and no lease (on either backend).
C24_PopReturnsKeyIffTodoNonEmpty ==
    [][PopStep =>
          /\ hist'.redis.ok <=> todo # <<>>
          /\ hist'.redis.ok => hist'.redis.key = todo[Len(todo)] /\ hist'.redis.key \in doing'
          /\ todo = <<>> => hist'.redis.key = NoKey /\ UNCHANGED store
          /\ hist'.pg.ok <=> \E k \in Keys : PgCount("todo", k) > 0
          /\ hist'.pg.ok => PgCount("todo", hist'.pg.key) > 0
                            /\ PgCountIn(tasks', "doing", hist'.pg.key) = PgCount("doing", hist'.pg.key) + 1
          /\ (\A k \in Keys : PgCount("todo", k) = 0) => hist'.pg.key = NoKey /\ tasks' = tasks]_vars

\* C24 witness: pop_key has returned None on both backends while each has
\* entries outside todo
C24_Witness ==
    /\ hist.call = "pop_key"
    /\ ~hist.redis.ok /\ ~hist.pg.ok
    /\ doing # {}
    /\ tasks # <<>>

\* C28: after every call the two backends have returned the same result and
\* hold the same multiset of keys in each of todo, doing, done, error and null.
C28_BackendsAgree ==
    /\ hist.redis = hist.pg
    /\ \A k \in Keys : \A i \in 1..Len(Phases) : EntriesIn(Phases[i], k) = PgCount(Phases[i], k)

\* C27: a push adds one entry with that key, and a claim or a transition of a
\* key that is in doing keeps the number of entries with each key, summed over
\* the five statuses, at the number of times the key was pushed.
C27_DuplicatesAreIndependent ==
    [][(hist' # hist /\ ~(hist'.redis.kind = "bool" /\ ~hist'.redis.ok)) =>
          \A k \in Keys :
              /\ Copies(k)' - hist'.pushes[k] = Copies(k) - hist.pushes[k]
              /\ hist'.redis.kind = "key" /\ todo # <<>> => hist'.redis.key = todo[Len(todo)]]_vars

\* no key has been sent back to todo so far: no key was returned twice and no
\* returned key waits in todo
NoRequeueYet ==
    /\ \A i, j \in DOMAIN hist.returned : i # j => hist.returned[i] # hist.returned[j]
    /\ \A i \in DOMAIN hist.returned : ~InTodo(hist.returned[i])

\* C25: with one producer and one consumer and no requeue, pop_key returns
\* the keys in the order push_key was called with them (1, 2, ...); and
\* doing_to_todo puts its key behind every key that waits in todo, so that
\* all of them are popped before it.
C25_FifoOrder ==
    [][/\ NoRequeueYet' => \A i \in DOMAIN hist'.returned : hist'.returned[i] = i
       /\ (wpc[Consumer] = "hold" /\ wpc'[Consumer] = "idle" /\ Len(todo') > Len(todo)) =>
              /\ Len(todo') = Len(todo) + 1
              /\ \A i \in DOMAIN todo : todo'[Len(todo') - i + 1] = todo[Len(todo) - i + 1]
              /\ todo'[1] = key[Consumer]]_vars

\* C25 witness: two keys were pushed and returned in that order, and one of
\* them was sent back to todo while another key was waiting there
C25_Witness ==
    /\ Len(hist.returned) >= 2
    /\ hist.returned[1] = 1 /\ hist.returned[2] = 2
    /\ Len(todo) >= 2
    /\ \E i \in DOMAIN hist.returned : todo[1] = hist.returned[i]

C29_TimeoutKeysAreOverdueDoingKeys ==
    [][\A s \in Scanners : (spc[s] = "idle" /\ spc'[s] = "loop") =>
          LET t == timeout_seconds'[s]
              returned == Range(timeout_keys'[s])
          IN  /\ \A k \in returned :
                    /\ k \in doing
                    /\ doing_time[k] # NoTime
                    /\ now - doing_time[k] >= t * MsPerSecond
              /\ \A k \in doing :
                    (doing_time[k] # NoTime /\ now - doing_time[k] > t * MsPerSecond)
                        => k \in returned
              /\ t = 0 => returned = doing]_vars

\* C31: a claim for task type T only ever returns a task of type T: a worker
\* that polls type T never receives, and never moves to doing, a task of
\* another type.
C31_ClaimReturnsPolledType ==
    \A w \in Workers :
        /\ task[w] # NoKey => TaskType(task[w]) = trace[w].task_type
        /\ (wpc[w] \in {"pop_zadd", "hold"} /\ key[w] \in doing)
               => TaskType(key[w]) = trace[w].task_type

\* C32: on a cancellation the worker requeues only the task it holds itself:
\* a task another worker has claimed and that is in doing stays in doing, its
\* lease unchanged, through every step of the interrupt handling.
C32_InterruptRequeuesOnlyOwnTask ==
    [][\A w \in Workers :
          (\/ wpc[w] = "except_ki" /\ wpc'[w] = "finally"
           \/ wpc[w] = "cleanup_loop" /\ doing_tasks'[w] # doing_tasks[w]) =>
              \A v \in Workers \ {w} :
                  (key[v] # NoKey /\ key[v] # key[w] /\ key[v] \in doing) =>
                      /\ key[v] \in doing'
                      /\ doing_time'[key[v]] = doing_time[key[v]]]_vars

\* C33: the cleanup loop survives a failing sweep: the thread leaves the loop
\* only once running is false, and after a sweep has raised another sweep is
\* attempted unless the queue is stopped.
C33_CleanupLoopSurvivesFailure ==
    /\ [](sweep.loop = "exited" => ~sweep.running)
    /\ [](sweep.raised => <>(~sweep.raised \/ ~sweep.running))

\* C33 witness: a sweep has raised and the thread is in the next sweep
C33_Witness ==
    /\ sweep.loop = "sweep" /\ sweep.running /\ ~sweep.raised
    /\ faults > 0

\* C34: the keep-alive thread never changes a task's status; it is told to stop
\* as soon as the handler has returned or raised; and the join is bounded:
\* _process_task returns to the main loop even if the callback never returns.
C34_HeartbeatIsObservationalAndBounded ==
    /\ [][\A w \in Workers :
             (/\ keep_alive[w].thread \in {"wait", "callback"}
              /\ keep_alive'[w].thread # keep_alive[w].thread
              /\ keep_alive'[w].stop_event = keep_alive[w].stop_event) => store' = store]_vars
    /\ [](\A w \in Workers :
             (wpc[w] \in {"callback", "mark_done", "mark_error"}
              /\ keep_alive[w].stop_event # "none") => keep_alive[w].stop_event = "set")
    /\ \A w \in Workers : (wpc[w] = "processed") ~> (wpc[w] = "idle")

\* C35: after any sequence of register_task calls task_handlers has exactly
\* one entry per registered type, the latest registration of that type, and
\* the weight vector has one element per type, in the order of the list of
\* types of the weighted choice, each the latest weight of its type.
C35_HandlersAndWeightsAgree ==
    \A w \in Workers :
        LET handlers == task_handlers[w]
            task_types == TaskTypesOf(handlers)
            latest == IF w = Consumer THEN hist.latest ELSE [t \in TaskTypes |-> NoEntry]
        IN  /\ \A t \in TaskTypes :
                  Cardinality({i \in DOMAIN handlers : handlers[i][1] = t})
                      = (IF latest[t] = NoEntry THEN 0 ELSE 1)
            /\ \A i \in DOMAIN handlers : handlers[i][2] = latest[handlers[i][1]]
            /\ Len(weights[w]) = Len(task_types)
            /\ \A i \in DOMAIN task_types : weights[w][i] = latest[task_types[i]].weight

\* C35 witness: two types are registered, the first of them registered again
\* with another weight than the second
C35_Witness ==
    /\ Len(task_handlers[Consumer]) = 2
    /\ hist.again[task_handlers[Consumer][1][1]]
    /\ weights[Consumer][1] # weights[Consumer][2]

\* C36: in the relational backend start_time is set when a row enters doing
\* and cleared when it returns to todo: a doing row has a start_time, no todo
\* row has one, and doing_to_todo on a key with a doing row turns such a row
\* into a todo row without start_time.
C36_StartTimeFollowsDoing ==
    [][/\ \A i \in DOMAIN tasks' :
             /\ tasks'[i].status = "doing" => tasks'[i].start_time # NoTime
             /\ tasks'[i].status = "todo" => tasks'[i].start_time = NoTime
       /\ (hist'.call = "doing_to_todo" /\ PgCountIn(tasks, "doing", hist'.moved) > 0) =>
             \E i \in DOMAIN tasks :
                 /\ tasks[i].key = hist'.moved
                 /\ tasks[i].status = "doing"
                 /\ tasks'[i].status = "todo"
                 /\ tasks'[i].start_time = NoTime]_vars

\* C37: when worker A's lease on a task has been recovered and the task is
\* claimed again by worker B, a transition A then issues for the task returns
\* False and leaves the task in doing under B's lease.
C37_StaleHolderCannotMove ==
    [][\A a \in Workers, b \in Workers :
          (/\ a # b
           /\ wpc[a] = "hold" /\ wpc[b] = "hold"
           /\ key[a] = key[b]
           /\ hist.lease[key[b]] = b
           /\ key[b] \in doing
           /\ wpc'[a] = "idle") =>
              /\ ~Success(key[a])
              /\ key[b] \in doing'
              /\ doing_time'[key[b]] = doing_time[key[b]]]_vars

\* C38: once the sweep has deleted an entry, nothing re-creates it: when a
\* worker holds a task that the sweep has removed from doing, so that the key
\* is in no status, the worker's transition leaves the key in no status.
C38_SweptEntryStaysDeleted ==
    [][\A w \in Workers :
          LET k == key[w]
          IN  (wpc[w] = "hold" /\ Copies(k) = 0 /\ sweep.total_removed > 0 /\ wpc'[w] = "idle") =>
                  /\ Count(todo', k) + Count(done', k) + Count(error', k) + Count(null', k) = 0
                  /\ k \notin doing']_vars

\* C39: in the key-value backend every key that is in todo, done, error or
\* null has an entry in the creation-time index.
C39_ListedKeyHasCreateTime ==
    \A k \in Keys :
        Count(todo, k) + Count(done, k) + Count(error, k) + Count(null, k) > 0
            => create_time[k] # NoTime

\* C40: after stop() is called while run is executing, the worker completes
\* the task it is processing (the task is in done, error or null and not in
\* doing when the iteration ends), claims no further task once the iteration
\* has ended, and run eventually ends.
C40_StopDrainsAndReturns ==
    /\ [][\A w \in Workers :
             /\ (wpc[w] = "processed" /\ wpc'[w] = "idle" /\ ~running[w]) =>
                    (InTerminal(task[w]) /\ task[w] \notin doing)
             /\ (wpc[w] = "idle" /\ ~running[w]) => (wpc'[w] # "pop_sadd" /\ todo' = todo)]_vars
    /\ \A w \in Workers : (~running[w] /\ wpc[w] \in InTry) ~> (wpc[w] = "stopped")

====
